---- MODULE Spec2Model ----
(***************************************************************************)
(* Model of the HR / occupational-health warehouse loader:                 *)
(*   src/db.py   DataLoader (load_dim_tempo, load_empresas,                *)
(*               load_funcionarios, load_absenteismo, _parse_date)         *)
(*               DatabaseManager.truncate_all_tables, the reload script,   *)
(*               ReportGenerator.get_funcionarios_convocacao_pendente      *)
(*   src/etl.py  DataValidator, DataTransformer, AbsenteismoETL,           *)
(*               FuncionarioETL, VencimentoETL, run_etl_pipeline           *)
(*   src/sqlalchemy_models.py  the tables and their constraints            *)
(*                                                                         *)
(* Conventions.  A nullable column or an Optional value is a sequence:     *)
(* <<>> is NULL / None, <<v>> is the value v.  A date is <<y, m, d>>.      *)
(* A character string that the code parses is a sequence of one-character  *)
(* strings.  A Python value whose type the code inspects is a tagged       *)
(* record [t |-> tag, v |-> sequence].  A table is the sequence of its     *)
(* rows in insertion order; the autoincrement surrogate key of a row is    *)
(* its position.                                                           *)
(***************************************************************************)
EXTENDS Integers, Sequences, FiniteSets, TLC

VARIABLES dim_tempo, dim_empresa, dim_funcionario, fato_absenteismo,
          fato_convocacao, clock, last, etl

vars == <<dim_tempo, dim_empresa, dim_funcionario, fato_absenteismo,
          fato_convocacao, clock, last, etl>>

tables == <<dim_tempo, dim_empresa, dim_funcionario, fato_absenteismo>>

----------------------------------------------------------------------------
(* Python values *)

None == <<>>

PyNone == [t |-> "none", v |-> <<>>]

PyMissing == [t |-> "missing", v |-> <<>>]

PyStr(chars) == [t |-> "str", v |-> chars]

PyDate(d) == [t |-> "date", v |-> d]

PyInt(n) == [t |-> "int", v |-> <<n>>]

PyName(s) == [t |-> "name", v |-> <<s>>]

\* float('nan'), the missing cell of a DataFrame
PyNaN == [t |-> "nan", v |-> <<>>]

\* dict.get(key, default): the default only when the key is missing
DictGet(row, key, default) == IF row[key].t = "missing" THEN default ELSE row[key]

\* dict[key] raises KeyError when the key is missing
HasKeys(row, keys) == \A k \in keys : row[k].t # "missing"

\* the value a column receives from a Python value (None -> NULL)
ColumnOf(pv) == IF pv.t \in {"none", "missing"} THEN <<>> ELSE pv.v

Range(s) == {s[i] : i \in DOMAIN s}

RECURSIVE SeqsUpTo(_, _)
SeqsUpTo(S, n) ==
    IF n = 0 THEN {<<>>}
    ELSE LET shorter == SeqsUpTo(S, n - 1)
         IN  shorter \cup {Append(q, x) : q \in {r \in shorter : Len(r) = n - 1}, x \in S}

----------------------------------------------------------------------------
(* datetime.date *)

IsLeap(y) == (y % 4 = 0) /\ ((y % 100 # 0) \/ (y % 400 = 0))

DaysInMonth(y, m) ==
    IF m = 2 THEN (IF IsLeap(y) THEN 29 ELSE 28)
    ELSE IF m \in {4, 6, 9, 11} THEN 30 ELSE 31

IsValidDate(y, m, d) == y \in 1..9999 /\ m \in 1..12 /\ d \in 1..DaysInMonth(y, m)

DateLT(a, b) ==
    \/ a[1] < b[1]
    \/ a[1] = b[1] /\ a[2] < b[2]
    \/ a[1] = b[1] /\ a[2] = b[2] /\ a[3] < b[3]

DateLE(a, b) == a = b \/ DateLT(a, b)

RECURSIVE DaysBeforeMonth(_, _)
DaysBeforeMonth(y, m) ==
    IF m = 1 THEN 0 ELSE DaysBeforeMonth(y, m - 1) + DaysInMonth(y, m - 1)

\* date.toordinal(): 1 for 0001-01-01
Ordinal(dt) ==
    LET p == dt[1] - 1
    IN  p * 365 + (p \div 4) - (p \div 100) + (p \div 400)
          + DaysBeforeMonth(dt[1], dt[2]) + dt[3]

\* date.weekday(): 0 = Monday .. 6 = Sunday
Weekday(dt) == (Ordinal(dt) + 6) % 7

----------------------------------------------------------------------------
(* datetime.strptime for the directives %Y %m %d %y and literal characters. *)
(* _strptime compiles the format to a regular expression, takes the first   *)
(* match in the alternatives' order, requires the match to end the string,  *)
(* and then builds the date (ValueError when the day is not in the month).  *)

Digits == {"0", "1", "2", "3", "4", "5", "6", "7", "8", "9"}

DigitVal(c) ==
    CASE c = "0" -> 0 [] c = "1" -> 1 [] c = "2" -> 2 [] c = "3" -> 3
      [] c = "4" -> 4 [] c = "5" -> 5 [] c = "6" -> 6 [] c = "7" -> 7
      [] c = "8" -> 8 [] c = "9" -> 9

IsDigitAt(s, i) == i \in DOMAIN s /\ s[i] \in Digits

Num2(s, i) == DigitVal(s[i]) * 10 + DigitVal(s[i + 1])

\* the lengths a directive can consume at position i, in the regex's order
\* of alternatives
DirectiveLens(s, i, tok) ==
    CASE tok = "%Y" ->
           IF \A k \in 0..3 : IsDigitAt(s, i + k) THEN <<4>> ELSE <<>>
      [] tok = "%y" ->
           IF \A k \in 0..1 : IsDigitAt(s, i + k) THEN <<2>> ELSE <<>>
      [] tok = "%m" ->
           \* 1[0-2]|0[1-9]|[1-9]
           (IF IsDigitAt(s, i) /\ IsDigitAt(s, i + 1) /\ Num2(s, i) \in 1..12
               /\ s[i] \in {"0", "1"}
            THEN <<2>> ELSE <<>>)
           \o (IF IsDigitAt(s, i) /\ s[i] # "0" THEN <<1>> ELSE <<>>)
      [] tok = "%d" ->
           \* 3[0-1]|[1-2]\d|0[1-9]|[1-9]| [1-9]
           (IF IsDigitAt(s, i) /\ IsDigitAt(s, i + 1) /\ Num2(s, i) \in 1..31
               /\ s[i] \in {"0", "1", "2", "3"}
            THEN <<2>> ELSE <<>>)
           \o (IF IsDigitAt(s, i) /\ s[i] # "0" THEN <<1>> ELSE <<>>)
           \o (IF i \in DOMAIN s /\ s[i] = " " /\ IsDigitAt(s, i + 1) /\ s[i + 1] # "0"
               THEN <<2>> ELSE <<>>)
      [] OTHER ->
           IF i \in DOMAIN s /\ s[i] = tok THEN <<1>> ELSE <<>>

NoMatch == [ok |-> FALSE, end |-> 0, Y |-> 0, m |-> 0, d |-> 0]

RECURSIVE NumAt(_, _, _)
NumAt(s, i, n) ==
    IF n = 0 THEN 0
    ELSE IF s[i + n - 1] = " " THEN NumAt(s, i, n - 1)
    ELSE NumAt(s, i, n - 1) * 10 + DigitVal(s[i + n - 1])

\* two-digit years: 69..99 -> 19xx, 00..68 -> 20xx
CenturyOf(yy) == IF yy <= 68 THEN 2000 + yy ELSE 1900 + yy

SetField(mt, tok, val) ==
    CASE tok = "%Y" -> [mt EXCEPT !.Y = val]
      [] tok = "%y" -> [mt EXCEPT !.Y = CenturyOf(val)]
      [] tok = "%m" -> [mt EXCEPT !.m = val]
      [] tok = "%d" -> [mt EXCEPT !.d = val]
      [] OTHER -> mt

RECURSIVE RegexMatch(_, _, _, _)
RECURSIVE TryLens(_, _, _, _, _)
\* the first match of the tokens fmt[k..] at position i of s
RegexMatch(s, i, fmt, k) ==
    IF k > Len(fmt) THEN [ok |-> TRUE, end |-> i - 1, Y |-> 0, m |-> 0, d |-> 0]
    ELSE TryLens(s, i, fmt, k, DirectiveLens(s, i, fmt[k]))

TryLens(s, i, fmt, k, lens) ==
    IF lens = <<>> THEN NoMatch
    ELSE LET n == Head(lens)
             rest == RegexMatch(s, i + n, fmt, k + 1)
         IN  IF rest.ok THEN SetField(rest, fmt[k], NumAt(s, i, n))
             ELSE TryLens(s, i, fmt, k, Tail(lens))

\* datetime.strptime(s, fmt).date(): <<y, m, d>>, or None for ValueError
Strptime(s, fmt) ==
    LET mt == RegexMatch(s, 1, fmt, 1)
    IN  IF mt.ok /\ mt.end = Len(s) /\ IsValidDate(mt.Y, mt.m, mt.d)
        THEN <<mt.Y, mt.m, mt.d>> ELSE None

FmtYmdDash == <<"%Y", "-", "%m", "-", "%d">>

FmtDmySlash == <<"%d", "/", "%m", "/", "%Y">>

FmtYmdPlain == <<"%Y", "%m", "%d">>

\* the first format that parses, in list order
RECURSIVE FirstParse(_, _)
FirstParse(s, fmts) ==
    IF fmts = <<>> THEN None
    ELSE LET r == Strptime(s, Head(fmts))
         IN  IF r # None THEN r ELSE FirstParse(s, Tail(fmts))

LoaderFormats == <<FmtYmdDash, FmtDmySlash, FmtYmdPlain>>

\* DataLoader._parse_date
LoaderParseDate(pv) ==
    CASE pv.t \in {"none", "missing"} -> None
      [] pv.t = "str" -> IF pv.v = <<>> THEN None ELSE FirstParse(pv.v, LoaderFormats)
      [] pv.t = "date" -> pv.v
      [] OTHER -> None

----------------------------------------------------------------------------
(* DataValidator *)

RECURSIVE OnlyDigits(_)
\* re.sub(r'\D', '', s)
OnlyDigits(s) ==
    IF s = <<>> THEN <<>>
    ELSE IF Head(s) \in Digits THEN <<Head(s)>> \o OnlyDigits(Tail(s))
    ELSE OnlyDigits(Tail(s))

RECURSIVE WeightedSum(_, _)
\* sum(int(digit) * (len(cpf_partial) + 1 - i) for i, digit in enumerate(cpf_partial)):
\* the digit at 1-based position k of n digits weighs n + 2 - k
WeightedSum(partial, k) ==
    IF k > Len(partial) THEN 0
    ELSE DigitVal(partial[k]) * (Len(partial) + 2 - k) + WeightedSum(partial, k + 1)

\* the check digit without the rule for remainders below 2
calculate_digitNoSmallRemainder(cpf_partial) == 11 - (WeightedSum(cpf_partial, 1) % 11)

calculate_digit(cpf_partial) ==
    LET remainder == WeightedSum(cpf_partial, 1) % 11
    IN  IF remainder < 2 THEN 0 ELSE 11 - remainder

\* validate_cpf comparing only the last digit
validate_cpfSecondDigitOnly(pv) ==
    IF pv.t # "str" \/ pv.v = <<>> THEN FALSE
    ELSE LET cpf == OnlyDigits(pv.v)
         IN  IF Len(cpf) # 11 THEN FALSE
             ELSE IF \A i \in 1..11 : cpf[i] = cpf[1] THEN FALSE
             ELSE DigitVal(cpf[11]) = calculate_digit(SubSeq(cpf, 1, 10))

\* validate_cpf on a str (or None)
validate_cpf(pv) ==
    IF pv.t # "str" \/ pv.v = <<>> THEN FALSE
    ELSE LET cpf == OnlyDigits(pv.v)
         IN  IF Len(cpf) # 11 THEN FALSE
             ELSE IF \A i \in 1..11 : cpf[i] = cpf[1] THEN FALSE
             ELSE /\ DigitVal(cpf[10]) = calculate_digit(SubSeq(cpf, 1, 9))
                  /\ DigitVal(cpf[11]) = calculate_digit(SubSeq(cpf, 1, 10))

Letters ==
    {"a", "b", "c", "d", "e", "f", "g", "h", "i", "j", "k", "l", "m", "n", "o", "p", "q",
     "r", "s", "t", "u", "v", "w", "x", "y", "z", "A", "B", "C", "D", "E", "F", "G", "H",
     "I", "J", "K", "L", "M", "N", "O", "P", "Q", "R", "S", "T", "U", "V", "W", "X", "Y",
     "Z"}

EmailLocalChars == Letters \cup Digits \cup {".", "_", "%", "+", "-"}

EmailDomainChars == Letters \cup Digits \cup {".", "-"}

\* ^[a-zA-Z0-9._%+-]+@[a-zA-Z0-9.-]+\.[a-zA-Z]{2,}$ ; $ also matches before a
\* final newline
EmailMatches(chars) ==
    LET s == IF chars # <<>> /\ chars[Len(chars)] = "\n"
             THEN SubSeq(chars, 1, Len(chars) - 1) ELSE chars
    IN  \E at \in 2..Len(s) : \E dot \in (at + 2)..(Len(s) - 2) :
            /\ s[at] = "@"
            /\ s[dot] = "."
            /\ \A i \in 1..(at - 1) : s[i] \in EmailLocalChars
            /\ \A i \in (at + 1)..(dot - 1) : s[i] \in EmailDomainChars
            /\ \A i \in (dot + 1)..Len(s) : s[i] \in Letters

validate_email(pv) == IF pv.t # "str" \/ pv.v = <<>> THEN TRUE ELSE EmailMatches(pv.v)

\* validate_date_range on Optional dates: "ok", "bad", or "TypeError" when
\* None <= date is evaluated
validate_date_range(start_date, end_date) ==
    IF end_date = None THEN "ok"
    ELSE IF start_date = None THEN "TypeError"
    ELSE IF DateLE(start_date, end_date) THEN "ok" ELSE "bad"

----------------------------------------------------------------------------
(* DataTransformer *)

\* the characters str.strip() removes: blank, \t, \n, \r, \f, \v, the
\* separators 0x1c to 0x1f, 0x85 and 0xa0 (the Unicode blanks above 0xff are
\* not characters of the model's strings)
Whitespace ==
    {" ", "\t", "\n", "\r", "\f", "", "", "", "", "", "", " "}

RECURSIVE LStrip(_)
LStrip(s) == IF s # <<>> /\ Head(s) \in Whitespace THEN LStrip(Tail(s)) ELSE s

RECURSIVE RStrip(_)
RStrip(s) ==
    IF s # <<>> /\ s[Len(s)] \in Whitespace THEN RStrip(SubSeq(s, 1, Len(s) - 1))
    ELSE s

Strip(s) == RStrip(LStrip(s))

FmtDmyDash == <<"%d", "-", "%m", "-", "%Y">>

FmtDmyShort == <<"%d", "/", "%m", "/", "%y">>

FmtYmdSlash == <<"%Y", "/", "%m", "/", "%d">>

\* the list without its last format
TransformerFormatsFive == <<FmtDmySlash, FmtYmdDash, FmtDmyDash, FmtYmdPlain, FmtDmyShort>>

TransformerFormats ==
    <<FmtDmySlash, FmtYmdDash, FmtDmyDash, FmtYmdPlain, FmtDmyShort, FmtYmdSlash>>

\* DataTransformer.parse_date
parse_date(pv) ==
    CASE pv.t \in {"none", "missing", "nan"} -> None
      [] pv.t = "str" -> IF pv.v = <<>> THEN None
                         ELSE FirstParse(Strip(pv.v), TransformerFormats)
      [] pv.t = "date" -> pv.v
      [] OTHER -> None

\* clean_cpf / clean_phone on None or a str: None, or the digits as a str
clean_cpf(pv) == IF pv.t # "str" \/ pv.v = <<>> THEN PyNone ELSE PyStr(OnlyDigits(pv.v))

clean_phone(pv) == IF pv.t # "str" \/ pv.v = <<>> THEN PyNone ELSE PyStr(OnlyDigits(pv.v))

\* a truthy value that is no str (NaN, a nonzero number, a date): "if not
\* value" lets it through and re.sub or re.match raises TypeError on it
TruthyNonStr(pv) == pv.t \in {"nan", "date"} \/ (pv.t = "int" /\ pv.v # <<0>>)

\* A frame is built from the mappings of its rows, so it has the column col
\* when some row has the key; raw_data[col] raises KeyError otherwise.  The
\* frame without rows is the empty frame that has every column.
HasColumn(raw_data, col) == raw_data = <<>> \/ \E i \in DOMAIN raw_data : raw_data[i][col].t # "missing"

\* what isna, dropna and pd.isna take as missing
IsNA(pv) == pv.t \in {"none", "nan", "missing"}

\* The cell of row i in the column col of the frame: PyMissing when the frame
\* has no such column; NaN for a row without the key; NaN for None in a
\* column whose other cells are numbers or NaN (a float column), and None
\* where the column holds objects or nothing but None.
Cell(raw_data, i, col) ==
    LET column == {raw_data[j][col] : j \in DOMAIN raw_data}
        numeric == /\ \A c \in column : c.t \in {"int", "nan", "missing", "none"}
                   /\ \E c \in column : c.t \in {"int", "nan", "missing"}
    IN  IF ~HasColumn(raw_data, col) THEN PyMissing
        ELSE IF raw_data[i][col].t = "missing" THEN PyNaN
        ELSE IF raw_data[i][col].t = "none" /\ numeric THEN PyNaN
        ELSE raw_data[i][col]

\* calculate_age that also subtracts a year on the anniversary itself
calculate_ageDayInclusive(birth_date, reference_date) ==
    LET age == reference_date[1] - birth_date[1]
    IN  IF \/ reference_date[2] < birth_date[2]
           \/ reference_date[2] = birth_date[2] /\ reference_date[3] <= birth_date[3]
        THEN age - 1 ELSE age

\* calculate_age with both dates given
calculate_age(birth_date, reference_date) ==
    LET age == reference_date[1] - birth_date[1]
    IN  IF \/ reference_date[2] < birth_date[2]
           \/ reference_date[2] = birth_date[2] /\ reference_date[3] < birth_date[3]
        THEN age - 1 ELSE age

\* pd.bdate_range(start_date, end_date).size: the Monday-to-Friday dates of
\* the inclusive range, none when start_date > end_date
calculate_work_days(start_date, end_date) ==
    IF start_date = None \/ end_date = None THEN 0
    ELSE Cardinality({o \in Ordinal(start_date)..Ordinal(end_date) : (o + 6) % 7 < 5})

----------------------------------------------------------------------------
(* AbsenteismoETL and FuncionarioETL.  A DataFrame is the sequence of its   *)
(* rows; row i (from 1) has the index label i - 1.  A numeric cell of the   *)
(* result is <<n>>, or <<>> for NaN.  process_raw_data returns (data,        *)
(* errors) or raises.                                                        *)

Raised(error) == [result |-> "raised", error |-> error, data |-> <<>>, errors |-> <<>>]

Returned(data, errors) == [result |-> "ok", error |-> "", data |-> data, errors |-> errors]

RECURSIVE Flatten(_)
Flatten(ss) == IF ss = <<>> THEN <<>> ELSE Head(ss) \o Flatten(Tail(ss))

SelectRows(rows, keep(_)) == SelectSeq(rows, keep)

\* rename(columns=column_mapping), then parse_date on the date columns the
\* frame has; the other cells are those of the frame
AbsProcessed(raw_data) ==
    [i \in DOMAIN raw_data |->
        [idx |-> i - 1,
         data_nascimento |-> parse_date(Cell(raw_data, i, "DT_NASCIMENTO")),
         sexo |-> Cell(raw_data, i, "SEXO"),
         tipo_atestado |-> Cell(raw_data, i, "TIPO_ATESTADO"),
         data_inicio_atestado |-> parse_date(Cell(raw_data, i, "DT_INICIO_ATESTADO")),
         data_fim_atestado |-> parse_date(Cell(raw_data, i, "DT_FIM_ATESTADO")),
         dias_afastados |-> Cell(raw_data, i, "DIAS_AFASTADOS")]]

\* row.get('dias_afastados', 0) < 0 raises TypeError on a cell that is no
\* number: None (in a column of objects), a str, a date.  NaN < 0 is False
\* and a frame without the column gives the default 0.
DiasRaises(dias) == dias.t \notin {"int", "nan", "missing"}

\* the errors one row appends in the validation loop ("Validações")
AbsRowErrors(row) ==
    (IF validate_date_range(row.data_inicio_atestado, row.data_fim_atestado) = "bad"
     THEN <<[row |-> row.idx, error |-> "Data fim anterior a data inicio"]>>
     ELSE <<>>)
    \o (IF row.dias_afastados.t = "int" /\ row.dias_afastados.v[1] < 0
        THEN <<[row |-> row.idx, error |-> "Dias afastados negativo"]>>
        ELSE <<>>)

\* dropna(subset=['data_inicio_atestado', 'sexo', 'tipo_atestado'])
AbsKept(row) ==
    row.data_inicio_atestado # None /\ ~IsNA(row.sexo) /\ ~IsNA(row.tipo_atestado)

\* the bins closed on the left: [0, 1), [1, 3), [3, 7), [7, 15), [15, 30), [30, inf)
categoria_afastamentoLeftClosed(dias) ==
    IF dias = <<>> \/ dias[1] < 0 THEN <<>>
    ELSE IF dias[1] < 1 THEN <<"1 dia">>
    ELSE IF dias[1] < 3 THEN <<"2-3 dias">>
    ELSE IF dias[1] < 7 THEN <<"4-7 dias">>
    ELSE IF dias[1] < 15 THEN <<"8-15 dias">>
    ELSE IF dias[1] < 30 THEN <<"16-30 dias">>
    ELSE <<">30 dias">>

\* pd.cut(dias, bins=[0, 1, 3, 7, 15, 30, inf], include_lowest=True):
\* [0, 1], (1, 3], (3, 7], (7, 15], (15, 30], (30, inf); <<>> outside
categoria_afastamento(dias) ==
    IF dias = <<>> \/ dias[1] < 0 THEN <<>>
    ELSE IF dias[1] <= 1 THEN <<"1 dia">>
    ELSE IF dias[1] <= 3 THEN <<"2-3 dias">>
    ELSE IF dias[1] <= 7 THEN <<"4-7 dias">>
    ELSE IF dias[1] <= 15 THEN <<"8-15 dias">>
    ELSE IF dias[1] <= 30 THEN <<"16-30 dias">>
    ELSE <<">30 dias">>

SexoDesc(sexo) ==
    IF sexo = <<1>> THEN <<"MASCULINO">> ELSE IF sexo = <<2>> THEN <<"FEMININO">> ELSE <<>>

TipoAtestadoDesc(tipo) ==
    IF tipo = <<1>> THEN <<"MEDICO">>
    ELSE IF tipo = <<2>> THEN <<"ODONTOLOGICO">>
    ELSE IF tipo = <<3>> THEN <<"ACIDENTE_TRABALHO">>
    ELSE IF tipo = <<4>> THEN <<"OUTROS">> ELSE <<>>

\* AbsenteismoETL._calculate_derived_metrics, one row
AbsDerived(row) ==
    LET inicio == row.data_inicio_atestado
        fim == IF row.data_fim_atestado # None THEN row.data_fim_atestado ELSE inicio
        dias == IF IsNA(row.dias_afastados) THEN <<calculate_work_days(inicio, fim)>>
                ELSE row.dias_afastados.v
    IN  [idx |-> row.idx,
         data_nascimento |-> row.data_nascimento,
         sexo |-> ColumnOf(row.sexo),
         tipo_atestado |-> ColumnOf(row.tipo_atestado),
         data_inicio_atestado |-> row.data_inicio_atestado,
         data_fim_atestado |-> row.data_fim_atestado,
         dias_afastados |-> dias,
         sexo_desc |-> SexoDesc(ColumnOf(row.sexo)),
         tipo_atestado_desc |-> TipoAtestadoDesc(ColumnOf(row.tipo_atestado)),
         idade_na_data_inicio |->
             IF row.data_nascimento = None THEN <<>>
             ELSE <<calculate_age(row.data_nascimento, inicio)>>,
         categoria_afastamento |-> categoria_afastamento(dias)]

\* the rows of processed_data that process_raw_data returns
AbsValidRows(processed) == SelectRows(processed, AbsKept)

\* AbsenteismoETL._calculate_derived_metrics on the rows data of a frame
\* with the columns of raw_data, statement by statement:
\* data['dias_afastados'] raises KeyError on a frame without the column; a
\* row without a day count reads row['data_fim_atestado'], KeyError without
\* that column; on no rows data.apply(..., axis=1) returns a DataFrame and
\* its assignment to one column raises ValueError; row['data_nascimento']
\* raises KeyError without that column.
AbsCalculateDerivedMetrics(raw_data, data) ==
    IF ~HasColumn(raw_data, "DIAS_AFASTADOS") THEN Raised("KeyError")
    ELSE IF /\ \E i \in DOMAIN data : IsNA(data[i].dias_afastados)
            /\ ~HasColumn(raw_data, "DT_FIM_ATESTADO")
    THEN Raised("KeyError")
    ELSE IF data = <<>> THEN Raised("ValueError")
    ELSE IF ~HasColumn(raw_data, "DT_NASCIMENTO") THEN Raised("KeyError")
    ELSE Returned([i \in DOMAIN data |-> AbsDerived(data[i])], <<>>)

\* AbsenteismoETL.process_raw_data.  The validation loop raises TypeError
\* on a row with an end date and no start date (validate_date_range) and on
\* a day count that is no number; dropna raises KeyError on a frame without
\* one of its three columns; then _calculate_derived_metrics raises or
\* returns.
AbsProcessRawData(raw_data) ==
    LET processed == AbsProcessed(raw_data)
        valid_rows == AbsValidRows(processed)
    IN  IF \E i \in DOMAIN processed :
              \/ validate_date_range(processed[i].data_inicio_atestado,
                                     processed[i].data_fim_atestado) = "TypeError"
              \/ DiasRaises(processed[i].dias_afastados)
        THEN Raised("TypeError")
        ELSE IF \E col \in {"DT_INICIO_ATESTADO", "SEXO", "TIPO_ATESTADO"} : ~HasColumn(raw_data, col)
        THEN Raised("KeyError")
        ELSE IF AbsCalculateDerivedMetrics(raw_data, valid_rows).result = "raised"
        THEN AbsCalculateDerivedMetrics(raw_data, valid_rows)
        ELSE Returned(AbsCalculateDerivedMetrics(raw_data, valid_rows).data,
                      Flatten([i \in DOMAIN processed |-> AbsRowErrors(processed[i])]))

\* clean_cpf and clean_phone, then parse_date on the date columns
FuncProcessed(raw_data) ==
    [i \in DOMAIN raw_data |->
        [idx |-> i - 1,
         CPF |-> clean_cpf(Cell(raw_data, i, "CPF")),
         TELEFONECELULAR |-> clean_phone(Cell(raw_data, i, "TELEFONECELULAR")),
         TELEFONERESIDENCIAL |-> clean_phone(Cell(raw_data, i, "TELEFONERESIDENCIAL")),
         EMAIL |-> Cell(raw_data, i, "EMAIL"),
         SEXO |-> ColumnOf(Cell(raw_data, i, "SEXO")),
         DATA_NASCIMENTO |-> parse_date(Cell(raw_data, i, "DATA_NASCIMENTO")),
         DATA_ADMISSAO |-> parse_date(Cell(raw_data, i, "DATA_ADMISSAO")),
         DATA_DEMISSAO |-> parse_date(Cell(raw_data, i, "DATA_DEMISSAO"))]]

\* Python truthiness of a str or None
Truthy(pv) == pv.t = "str" /\ pv.v # <<>>

FuncRowErrors(row) ==
    (IF Truthy(row.CPF) /\ ~validate_cpf(row.CPF)
     THEN <<[row |-> row.idx, error |-> "CPF invalido"]>> ELSE <<>>)
    \o (IF Truthy(row.EMAIL) /\ ~validate_email(row.EMAIL)
        THEN <<[row |-> row.idx, error |-> "Email invalido"]>> ELSE <<>>)
    \o (IF validate_date_range(row.DATA_ADMISSAO, row.DATA_DEMISSAO) = "bad"
        THEN <<[row |-> row.idx, error |-> "Data demissao anterior a data admissao"]>>
        ELSE <<>>)

\* pd.cut(idade, bins=[0, 25, 35, 45, 55, 65, inf], include_lowest=True):
\* [0, 25], (25, 35], (35, 45], (45, 55], (55, 65], (65, inf)
faixa_etaria(idade) ==
    IF idade = <<>> \/ idade[1] < 0 THEN <<>>
    ELSE IF idade[1] <= 25 THEN <<"<25">>
    ELSE IF idade[1] <= 35 THEN <<"25-34">>
    ELSE IF idade[1] <= 45 THEN <<"35-44">>
    ELSE IF idade[1] <= 55 THEN <<"45-54">>
    ELSE IF idade[1] <= 65 THEN <<"55-64">>
    ELSE <<"65+">>

\* FuncionarioETL._calculate_derived_metrics, one row of a frame in which
\* some row has a birth date (idade_atual is then a float column, NaN where
\* the row has none); tempo_empresa is kept as its number of days (the code
\* divides it by 365.25)
FuncDerived(row, today) ==
    LET idade == IF row.DATA_NASCIMENTO = None THEN <<>>
                 ELSE <<calculate_age(row.DATA_NASCIMENTO, today)>>
        end_date == IF row.DATA_DEMISSAO # None THEN row.DATA_DEMISSAO ELSE today
    IN  [idx |-> row.idx,
         CPF |-> row.CPF,
         TELEFONECELULAR |-> row.TELEFONECELULAR,
         TELEFONERESIDENCIAL |-> row.TELEFONERESIDENCIAL,
         EMAIL |-> row.EMAIL,
         SEXO |-> row.SEXO,
         DATA_NASCIMENTO |-> row.DATA_NASCIMENTO,
         DATA_ADMISSAO |-> row.DATA_ADMISSAO,
         DATA_DEMISSAO |-> row.DATA_DEMISSAO,
         idade_atual |-> idade,
         tempo_empresa_dias |->
             IF row.DATA_ADMISSAO = None THEN <<>>
             ELSE <<Ordinal(end_date) - Ordinal(row.DATA_ADMISSAO)>>,
         sexo_desc |-> SexoDesc(row.SEXO),
         faixa_etaria |-> faixa_etaria(idade),
         status_ativo |-> row.DATA_DEMISSAO = None]

\* the rows of processed_data that process_raw_data returns: all of them
FuncValidRows(processed) == processed

\* FuncionarioETL._calculate_derived_metrics on the rows data of a frame
\* with the columns of raw_data, statement by statement:
\* data['DATA_NASCIMENTO'] raises KeyError on a frame without the column; on
\* no rows data.apply(..., axis=1) returns a DataFrame and its assignment to
\* one column raises ValueError; row['DATA_ADMISSAO'], row['DATA_DEMISSAO'],
\* data['SEXO'] and data['ESTADOCIVIL'] raise KeyError without the column;
\* when no row has a birth date, idade_atual is a column of None objects and
\* pd.cut raises TypeError on it (the bins are compared with None).
FuncCalculateDerivedMetrics(raw_data, data, today) ==
    IF ~HasColumn(raw_data, "DATA_NASCIMENTO") THEN Raised("KeyError")
    ELSE IF data = <<>> THEN Raised("ValueError")
    ELSE IF \E col \in {"DATA_ADMISSAO", "DATA_DEMISSAO", "SEXO", "ESTADOCIVIL"} : ~HasColumn(raw_data, col)
    THEN Raised("KeyError")
    ELSE IF \A i \in DOMAIN data : data[i].DATA_NASCIMENTO = None THEN Raised("TypeError")
    ELSE Returned([i \in DOMAIN data |-> FuncDerived(data[i], today)], <<>>)

\* the first exception of the three cleaning statements: each column in
\* turn is looked up (KeyError) and then cleaned cell by cell (TypeError)
RECURSIVE FuncCleanErr(_, _)
FuncCleanErr(raw_data, cols) ==
    IF cols = <<>> THEN ""
    ELSE IF ~HasColumn(raw_data, Head(cols)) THEN "KeyError"
    ELSE IF \E i \in DOMAIN raw_data : TruthyNonStr(Cell(raw_data, i, Head(cols))) THEN "TypeError"
    ELSE FuncCleanErr(raw_data, Tail(cols))

\* FuncionarioETL.process_raw_data.  clean_cpf and clean_phone raise
\* TypeError on NaN (re.sub on a float) and the statements that call them
\* raise KeyError on a frame without the column; validate_email raises
\* TypeError on a NaN EMAIL (re.match on a float), and a frame without the
\* EMAIL column gives row.get('EMAIL') = None; validate_date_range raises
\* TypeError on a termination date without an admission date; then
\* _calculate_derived_metrics raises or returns.
FuncProcessRawData(raw_data, today) ==
    LET processed == FuncProcessed(raw_data)
        valid_rows == FuncValidRows(processed)
        clean_err == FuncCleanErr(raw_data, <<"CPF", "TELEFONECELULAR", "TELEFONERESIDENCIAL">>)
    IN  IF clean_err # "" THEN Raised(clean_err)
        ELSE IF \E i \in DOMAIN processed :
              \/ TruthyNonStr(processed[i].EMAIL)
              \/ validate_date_range(processed[i].DATA_ADMISSAO,
                                     processed[i].DATA_DEMISSAO) = "TypeError"
        THEN Raised("TypeError")
        ELSE IF FuncCalculateDerivedMetrics(raw_data, valid_rows, today).result = "raised"
        THEN FuncCalculateDerivedMetrics(raw_data, valid_rows, today)
        ELSE Returned(FuncCalculateDerivedMetrics(raw_data, valid_rows, today).data,
                      Flatten([i \in DOMAIN processed |-> FuncRowErrors(processed[i])]))

----------------------------------------------------------------------------
(* Bounds of the model *)

\* loader calls in one behaviour
MaxCalls == 4

\* rows in one input batch
MaxBatch == 2

\* calls in a behaviour of the dimension loaders alone
MaxDimCalls == 3

\* calls in a behaviour of the time dimension alone
MaxTempoCalls == 2

\* rows in one DataFrame given to process_raw_data
MaxFrame == 2

\* the largest day count given to the duration bucketing
MaxDias == 35

----------------------------------------------------------------------------
(* The unit of work shared by the four loaders:                            *)
(*   try: ... session.add_all(records); session.commit()                   *)
(*   except Exception: session.rollback(); raise                           *)

\* a rollback that also undoes the units committed before
PersistUndoesEarlier(tbl, records, ok) == IF ok THEN tbl \o records ELSE <<>>

\* what the table holds after the unit: every record, or the prior rows
Persist(tbl, records, ok) == IF ok THEN tbl \o records ELSE tbl

\* an except block that logs the exception and returns
OutcomeSwallowed(err) == "ok"

\* what the caller sees: a normal return, or the exception re-raised
Outcome(err) == IF err = "" THEN "ok" ELSE "raised"

Called(op, input, err, misses) ==
    [op |-> op, input |-> input, result |-> Outcome(err), error |-> err,
     misses |-> misses]

\* a UNIQUE column: no value twice among the stored and the new rows
UniqueOk(tbl, records, col) ==
    LET all == tbl \o records
    IN  \A i, j \in DOMAIN all : i # j => all[i][col] # all[j][col]

\* NOT NULL columns
NotNullOk(records, cols) ==
    \A i \in DOMAIN records : \A c \in cols : records[i][c] # None

----------------------------------------------------------------------------
(* DataLoader.load_dim_tempo *)

\* datetime.MAXYEAR
MAXYEAR == 9999

\* whether the increment of cur is a date: date(year, month, 1) raises
\* ValueError when the year is above MAXYEAR
HasNextDate(cur) == cur[3] < 28 \/ cur[1] + (cur[2] \div 12) <= MAXYEAR

\* an increment that stays in the month after the 28th
NextDateSameMonth(cur) ==
    IF cur[3] < 28 THEN <<cur[1], cur[2], cur[3] + 1>>
    ELSE <<cur[1], cur[2], 1>>

\* "Incrementa um dia"
NextDate(cur) ==
    IF cur[3] < 28 THEN <<cur[1], cur[2], cur[3] + 1>>
    ELSE <<cur[1] + (cur[2] \div 12), (cur[2] % 12) + 1, 1>>

TempoRecord(cur) ==
    LET weekday == Weekday(cur) + 1
    IN  [data_completa |-> cur,
         ano |-> cur[1],
         trimestre |-> ((cur[2] - 1) \div 3) + 1,
         mes |-> cur[2],
         dia |-> cur[3],
         dia_semana |-> weekday,
         eh_final_semana |-> weekday \in {6, 7},
         eh_feriado |-> FALSE]

\* current_date after k increments of start, without recursion: the
\* increments walk the days 1 .. 28 of month after month, and a start after
\* the 28th is left for the 1st of the next month as the 28th is.  t counts
\* the days walked from the 1st of the start month.
DateAfter(start, k) ==
    IF k = 0 THEN start
    ELSE LET t == (IF start[3] > 28 THEN 27 ELSE start[3] - 1) + k
             months == start[1] * 12 + (start[2] - 1) + (t \div 28)
         IN  <<months \div 12, (months % 12) + 1, (t % 28) + 1>>

\* the while loop: current_date runs from start_date by increments while it
\* is <= end_date, and every value it takes gives a record; an increment
\* that is no date raises ValueError.  An increment moves at least one day
\* on, so the loop is left within as many iterations as the range has days.
TempoLoop(start, end) ==
    LET visits == {k \in 0..(Ordinal(end) - Ordinal(start)) : DateLE(DateAfter(start, k), end)}
        n == Cardinality(visits)
    IN  [error |-> IF n > 0 /\ ~HasNextDate(DateAfter(start, n - 1)) THEN "ValueError" ELSE "",
         records |-> [i \in 1..n |-> TempoRecord(DateAfter(start, i - 1))]]

\* tempo_records when the loop is left
TempoRecords(start, end) == TempoLoop(start, end).records

LoadDimTempoErr(records) ==
    IF UniqueOk(dim_tempo, records, "data_completa") THEN "" ELSE "IntegrityError"

LoadDimTempo(start, end) ==
    /\ clock < MaxCalls
    /\ LET loop == TempoLoop(start, end)
           err == IF loop.error # "" THEN loop.error ELSE LoadDimTempoErr(loop.records)
       IN  /\ dim_tempo' = Persist(dim_tempo, loop.records, err = "")
           /\ last' = Called("load_dim_tempo", <<start, end>>, err, <<>>)
    /\ clock' = clock + 1
    /\ UNCHANGED <<dim_empresa, dim_funcionario, fato_absenteismo, fato_convocacao, etl>>

----------------------------------------------------------------------------
(* DataLoader.load_empresas *)

EmpresaRecord(emp_data) ==
    [codigo_empresa |-> ColumnOf(emp_data.codigo_empresa),
     nome_empresa |-> ColumnOf(emp_data.nome_empresa),
     cnpj |-> ColumnOf(DictGet(emp_data, "cnpj", PyNone)),
     situacao |-> ColumnOf(DictGet(emp_data, "situacao", PyName("ATIVA")))]

EmpresaRecords(batch) == [i \in DOMAIN batch |-> EmpresaRecord(batch[i])]

LoadEmpresasErr(batch) ==
    IF \E i \in DOMAIN batch : ~HasKeys(batch[i], {"codigo_empresa", "nome_empresa"})
    THEN "KeyError"
    ELSE IF /\ NotNullOk(EmpresaRecords(batch), {"codigo_empresa", "nome_empresa"})
            /\ UniqueOk(dim_empresa, EmpresaRecords(batch), "codigo_empresa")
    THEN "" ELSE "IntegrityError"

LoadEmpresas(batch) ==
    /\ clock < MaxCalls
    /\ LET err == LoadEmpresasErr(batch)
           records == IF err = "KeyError" THEN <<>> ELSE EmpresaRecords(batch)
       IN  /\ dim_empresa' = Persist(dim_empresa, records, err = "")
           /\ last' = Called("load_empresas", batch, err, <<>>)
    /\ clock' = clock + 1
    /\ UNCHANGED <<dim_tempo, dim_funcionario, fato_absenteismo, fato_convocacao, etl>>

----------------------------------------------------------------------------
(* DataLoader.load_funcionarios.  Of the ~50 columns the model keeps the   *)
(* natural key, the NOT NULL columns, the columns load_absenteismo looks   *)
(* up, and the SCD type 2 control columns; the others are nullable copies  *)
(* of .get() values.                                                       *)

FuncRequiredKeys ==
    {"CODIGO", "CODIGOEMPRESA", "NOME", "CPF", "SEXO", "MATRICULAFUNCIONARIO", "SITUACAO"}

FuncNotNull ==
    {"codigo_funcionario", "codigo_empresa", "nome", "cpf", "data_nascimento", "sexo",
     "matricula_funcionario", "situacao", "data_admissao"}

\* the column defaults applied at INSERT: data_inicio_validade = utcnow(),
\* data_fim_validade NULL, registro_ativo = True
FuncionarioRecord(func_data, now) ==
    [codigo_funcionario |-> ColumnOf(func_data.CODIGO),
     codigo_empresa |-> ColumnOf(func_data.CODIGOEMPRESA),
     nome |-> ColumnOf(func_data.NOME),
     cpf |-> ColumnOf(func_data.CPF),
     data_nascimento |-> LoaderParseDate(DictGet(func_data, "DATA_NASCIMENTO", PyNone)),
     sexo |-> ColumnOf(func_data.SEXO),
     matricula_funcionario |-> ColumnOf(func_data.MATRICULAFUNCIONARIO),
     situacao |-> ColumnOf(func_data.SITUACAO),
     data_admissao |-> LoaderParseDate(DictGet(func_data, "DATA_ADMISSAO", PyNone)),
     nome_unidade |-> ColumnOf(DictGet(func_data, "NOMEUNIDADE", PyNone)),
     nome_setor |-> ColumnOf(DictGet(func_data, "NOMESETOR", PyNone)),
     data_inicio_validade |-> <<now>>,
     data_fim_validade |-> None,
     registro_ativo |-> TRUE]

FuncionarioRecords(batch, now) == [i \in DOMAIN batch |-> FuncionarioRecord(batch[i], now)]

\* FOREIGN KEY dim_funcionario.codigo_empresa -> dim_empresa.codigo_empresa
EmpresaFkOk(records) ==
    \A i \in DOMAIN records :
        \E j \in DOMAIN dim_empresa : dim_empresa[j].codigo_empresa = records[i].codigo_empresa

LoadFuncionariosErr(batch, now) ==
    IF \E i \in DOMAIN batch : ~HasKeys(batch[i], FuncRequiredKeys)
    THEN "KeyError"
    ELSE IF /\ NotNullOk(FuncionarioRecords(batch, now), FuncNotNull)
            /\ EmpresaFkOk(FuncionarioRecords(batch, now))
    THEN "" ELSE "IntegrityError"

LoadFuncionarios(batch) ==
    /\ clock < MaxCalls
    /\ LET err == LoadFuncionariosErr(batch, clock)
           records == IF err = "KeyError" THEN <<>> ELSE FuncionarioRecords(batch, clock)
       IN  /\ dim_funcionario' = Persist(dim_funcionario, records, err = "")
           /\ last' = Called("load_funcionarios", batch, err, <<>>)
    /\ clock' = clock + 1
    /\ UNCHANGED <<dim_tempo, dim_empresa, fato_absenteismo, fato_convocacao, etl>>

----------------------------------------------------------------------------
(* DataLoader.load_absenteismo *)

\* the filter without its sexo condition
EmployeeMatchesAnySex(abs_data) ==
    {i \in DOMAIN dim_funcionario :
        LET f == dim_funcionario[i]
        IN  /\ f.codigo_empresa = ColumnOf(DictGet(abs_data, "EMPRESA", PyInt(0)))
            /\ f.nome_unidade = ColumnOf(abs_data.UNIDADE)
            /\ f.nome_setor = ColumnOf(abs_data.SETOR)
            /\ f.data_nascimento = LoaderParseDate(abs_data.DT_NASCIMENTO)
            /\ f.registro_ativo = TRUE}

\* session.query(DimFuncionario).filter(...): the rows the filter selects
EmployeeMatches(abs_data) ==
    {i \in DOMAIN dim_funcionario :
        LET f == dim_funcionario[i]
        IN  /\ f.codigo_empresa = ColumnOf(DictGet(abs_data, "EMPRESA", PyInt(0)))
            /\ f.nome_unidade = ColumnOf(abs_data.UNIDADE)
            /\ f.nome_setor = ColumnOf(abs_data.SETOR)
            /\ f.data_nascimento = LoaderParseDate(abs_data.DT_NASCIMENTO)
            /\ f.sexo = ColumnOf(abs_data.SEXO)
            /\ f.registro_ativo = TRUE}

\* session.query(DimTempo).filter(data_completa == d).first(): <<sk_tempo>> or None
TempoLookup(d) ==
    LET hits == {i \in DOMAIN dim_tempo : dim_tempo[i].data_completa = d}
    IN  IF hits = {} THEN None ELSE <<CHOOSE i \in hits : \A j \in hits : i <= j>>

\* dias_afastados is Column(Numeric(8, 2), default=0): the INSERT leaves out
\* an attribute that is None, and the column default fills it
AbsenteismoRecord(abs_data, sk_funcionario) ==
    LET data_inicio == LoaderParseDate(abs_data.DT_INICIO_ATESTADO)
        data_fim == LoaderParseDate(DictGet(abs_data, "DT_FIM_ATESTADO", PyNone))
        dias_afastados == ColumnOf(DictGet(abs_data, "DIAS_AFASTADOS", PyInt(0)))
    IN  [sk_funcionario |-> <<sk_funcionario>>,
         sk_tempo_inicio |-> TempoLookup(data_inicio),
         sk_tempo_fim |-> IF data_fim # None THEN TempoLookup(data_fim) ELSE None,
         codigo_empresa |-> ColumnOf(DictGet(abs_data, "EMPRESA", PyInt(0))),
         unidade |-> ColumnOf(abs_data.UNIDADE),
         setor |-> ColumnOf(abs_data.SETOR),
         data_nascimento |-> LoaderParseDate(abs_data.DT_NASCIMENTO),
         sexo |-> ColumnOf(abs_data.SEXO),
         matricula_funcionario |-> ColumnOf(abs_data.MATRICULA_FUNC),
         tipo_atestado |-> ColumnOf(abs_data.TIPO_ATESTADO),
         data_inicio_atestado |-> data_inicio,
         data_fim_atestado |-> data_fim,
         dias_afastados |-> IF dias_afastados = None THEN <<0>> ELSE dias_afastados]

AbsLookupKeys == {"UNIDADE", "SETOR", "DT_NASCIMENTO", "SEXO"}

AbsRecordKeys == {"DT_INICIO_ATESTADO", "MATRICULA_FUNC", "TIPO_ATESTADO"}

AbsNotNull ==
    {"sk_funcionario", "sk_tempo_inicio", "codigo_empresa", "data_nascimento", "sexo",
     "tipo_atestado", "data_inicio_atestado"}

\* The for loop over the batch from row i on.  acc: the records built, the
\* rows warned about ("Funcionário não encontrado") and the exception that
\* left the loop.  .first() has no ORDER BY: any selected row may be the one
\* returned, so the result is the set of the loop's possible outcomes.
RECURSIVE AbsLoop(_, _, _)
AbsLoop(batch, i, acc) ==
    IF i > Len(batch) THEN {acc}
    ELSE LET abs_data == batch[i]
         IN  IF ~HasKeys(abs_data, AbsLookupKeys)
             THEN {[acc EXCEPT !.err = "KeyError"]}
             ELSE IF EmployeeMatches(abs_data) = {}
             THEN AbsLoop(batch, i + 1, [acc EXCEPT !.misses = Append(@, i)])
             ELSE IF ~HasKeys(abs_data, AbsRecordKeys)
             THEN {[acc EXCEPT !.err = "KeyError"]}
             ELSE UNION {AbsLoop(batch, i + 1,
                                 [acc EXCEPT !.records =
                                     Append(@, AbsenteismoRecord(abs_data, sk))])
                         : sk \in EmployeeMatches(abs_data)}

AbsOutcomes(batch) == AbsLoop(batch, 1, [records |-> <<>>, misses |-> <<>>, err |-> ""])

LoadAbsenteismoErr(out) ==
    IF out.err # "" THEN out.err
    ELSE IF NotNullOk(out.records, AbsNotNull) THEN "" ELSE "IntegrityError"

LoadAbsenteismo(batch) ==
    /\ clock < MaxCalls
    /\ \E out \in AbsOutcomes(batch) :
         LET err == LoadAbsenteismoErr(out)
         IN  /\ fato_absenteismo' = Persist(fato_absenteismo, out.records, err = "")
             /\ last' = Called("load_absenteismo", batch, err, out.misses)
    /\ clock' = clock + 1
    /\ UNCHANGED <<dim_tempo, dim_empresa, dim_funcionario, fato_convocacao, etl>>

----------------------------------------------------------------------------
(* Inputs *)

Iso19900520 == PyStr(<<"1", "9", "9", "0", "-", "0", "5", "-", "2", "0">>)

Iso20240227 == PyStr(<<"2", "0", "2", "4", "-", "0", "2", "-", "2", "7">>)

Iso20240229 == PyStr(<<"2", "0", "2", "4", "-", "0", "2", "-", "2", "9">>)

Br01032024 == PyStr(<<"0", "1", "/", "0", "3", "/", "2", "0", "2", "4">>)

Br010324 == PyStr(<<"0", "1", "/", "0", "3", "/", "2", "4">>)

Empresa(codigo, nome) ==
    [codigo_empresa |-> codigo, nome_empresa |-> nome, cnpj |-> PyMissing,
     situacao |-> PyMissing]

Funcionario(empresa, setor) ==
    [CODIGO |-> PyInt(10), CODIGOEMPRESA |-> PyInt(empresa), NOME |-> PyName("Ana"),
     CPF |-> PyName("11144477735"), SEXO |-> PyInt(1),
     MATRICULAFUNCIONARIO |-> PyName("M10"), SITUACAO |-> PyName("Ativo"),
     DATA_NASCIMENTO |-> Iso19900520, DATA_ADMISSAO |-> Iso20240227,
     NOMEUNIDADE |-> PyName("U1"), NOMESETOR |-> PyName(setor)]

Absenteismo(sexo, inicio, fim, matricula) ==
    [EMPRESA |-> PyInt(1), UNIDADE |-> PyName("U1"), SETOR |-> PyName("S1"),
     DT_NASCIMENTO |-> Iso19900520, SEXO |-> PyInt(sexo),
     DT_INICIO_ATESTADO |-> inicio, DT_FIM_ATESTADO |-> fim,
     MATRICULA_FUNC |-> matricula, TIPO_ATESTADO |-> PyInt(1),
     DIAS_AFASTADOS |-> PyMissing]

TempoDates == {<<2024, 2, 27>>, <<2024, 3, 1>>}

\* the ranges given to load_dim_tempo: over TempoDates, and the 28th of
\* date.max's month alone
TempoRanges == (TempoDates \X TempoDates) \cup {<<<<9999, 12, 28>>, <<9999, 12, 28>>>>}

\* a company alone, two rows of the same natural code, a row without a name
EmpresaBatches ==
    {<<>>,
     <<Empresa(PyInt(1), PyName("Empresa A"))>>,
     <<Empresa(PyInt(1), PyName("Empresa A")), Empresa(PyInt(1), PyName("Empresa B"))>>,
     <<Empresa(PyInt(2), PyMissing)>>}

FuncionarioBatches ==
    {<<>>,
     <<Funcionario(1, "S1")>>,
     <<Funcionario(1, "S1"), Funcionario(1, "S2")>>,
     <<Funcionario(1, "S1"), Funcionario(2, "S1")>>,
     <<[Funcionario(1, "S2") EXCEPT !.CPF = PyMissing]>>}

\* a row that resolves, one of the other sex, one that starts on the leap day
\* and ends on a date given as DD/MM/YYYY, one without MATRICULA_FUNC, one
\* whose DIAS_AFASTADOS is None
AbsResolves == Absenteismo(1, Iso20240227, PyMissing, PyName("M10"))

AbsOtherSex == Absenteismo(2, Iso20240227, PyMissing, PyName("M10"))

AbsLeapDay == Absenteismo(1, Iso20240229, Br01032024, PyName("M10"))

AbsNoMatricula == Absenteismo(1, Iso20240227, Br010324, PyMissing)

AbsNoDias == [AbsResolves EXCEPT !.DIAS_AFASTADOS = PyNone]

AbsenteismoBatches ==
    {<<>>, <<AbsResolves>>, <<AbsNoDias>>, <<AbsOtherSex>>, <<AbsLeapDay>>, <<AbsNoMatricula>>,
     <<AbsResolves, AbsOtherSex>>, <<AbsOtherSex, AbsResolves>>,
     <<AbsResolves, AbsLeapDay>>, <<AbsOtherSex, AbsNoMatricula>>,
     <<AbsResolves, AbsResolves>>}

----------------------------------------------------------------------------
(* The loader on an empty schema (create_all_tables, truncate_all_tables) *)

NoOut == [result |-> "none", error |-> "", data |-> <<>>, errors |-> <<>>]

Idle == [stage |-> "idle", kind |-> "", frame |-> <<>>, today |-> <<>>, out |-> NoOut]

Init ==
    /\ dim_tempo = <<>>
    /\ dim_empresa = <<>>
    /\ dim_funcionario = <<>>
    /\ fato_absenteismo = <<>>
    /\ fato_convocacao = <<>>
    /\ clock = 0
    /\ last = [op |-> "none", input |-> <<>>, result |-> "none", error |-> "",
               misses |-> <<>>]
    /\ etl = Idle

Next ==
    \/ \E range \in TempoRanges : LoadDimTempo(range[1], range[2])
    \/ \E batch \in EmpresaBatches : LoadEmpresas(batch)
    \/ \E batch \in FuncionarioBatches : LoadFuncionarios(batch)
    \/ \E batch \in AbsenteismoBatches : LoadAbsenteismo(batch)

Spec == Init /\ [][Next]_vars

\* the two dimension loaders alone, on every batch of up to MaxBatch rows of
\* one company code and one employee key
DimEmpresaRows ==
    {Empresa(PyInt(1), PyName("Empresa A")), Empresa(PyInt(1), PyName("Empresa B"))}

DimFuncionarioRows == {Funcionario(1, "S1"), Funcionario(1, "S2")}

DimLoadEmpresas ==
    /\ clock < MaxDimCalls
    /\ \E batch \in SeqsUpTo(DimEmpresaRows, MaxBatch) : LoadEmpresas(batch)

DimLoadFuncionarios ==
    /\ clock < MaxDimCalls
    /\ \E batch \in SeqsUpTo(DimFuncionarioRows, MaxBatch) : LoadFuncionarios(batch)

NextDim == DimLoadEmpresas \/ DimLoadFuncionarios

SpecDim == Init /\ [][NextDim]_vars

\* the time dimension alone, on ranges around a year end and a leap day
TempoDatesWide ==
    {<<2023, 12, 28>>, <<2023, 12, 31>>, <<2024, 1, 1>>,
     <<2024, 2, 28>>, <<2024, 2, 29>>, <<2024, 3, 1>>}

\* the last days of date.max's month
TempoDatesMax == {<<9999, 12, 27>>, <<9999, 12, 28>>, <<9999, 12, 31>>}

TempoRangesWide == (TempoDatesWide \X TempoDatesWide) \cup (TempoDatesMax \X TempoDatesMax)

TempoLoadDimTempo ==
    /\ clock < MaxTempoCalls
    /\ \E range \in TempoRangesWide : LoadDimTempo(range[1], range[2])

NextTempo == TempoLoadDimTempo

SpecTempo == Init /\ [][NextTempo]_vars

----------------------------------------------------------------------------
(* process_raw_data on DataFrames of up to MaxFrame rows *)

Br10012024 == PyStr(<<"1", "0", "/", "0", "1", "/", "2", "0", "2", "4">>)

Br05012024 == PyStr(<<"0", "5", "/", "0", "1", "/", "2", "0", "2", "4">>)

Br12012024 == PyStr(<<"1", "2", "/", "0", "1", "/", "2", "0", "2", "4">>)

Br15012024 == PyStr(<<"1", "5", "/", "0", "1", "/", "2", "0", "2", "4">>)

CpfValid == PyStr(<<"1", "1", "1", ".", "4", "4", "4", ".", "7", "7", "7", "-", "3", "5">>)

CpfBadChecksum == PyStr(<<"1", "1", "1", "4", "4", "4", "7", "7", "7", "3", "6">>)

CpfNoDigits == PyStr(<<"-", "-", "-">>)

EmailGood == PyStr(<<"a", "n", "a", "@", "x", ".", "c", "o">>)

EmailBad == PyStr(<<"a", "n", "a", "@", "x">>)

AbsRaw(inicio, fim, dias, sexo) ==
    [DT_NASCIMENTO |-> Iso19900520, SEXO |-> sexo, TIPO_ATESTADO |-> PyInt(1),
     DT_INICIO_ATESTADO |-> inicio, DT_FIM_ATESTADO |-> fim, DIAS_AFASTADOS |-> dias]

AbsRawRows ==
    {AbsRaw(inicio, fim, dias, PyInt(1)) :
        inicio \in {Br10012024, PyNone},
        fim \in {PyNone, Br05012024, Br12012024, Br15012024},
        dias \in {PyNaN, PyInt(-1), PyInt(2)}}
    \cup {AbsRaw(Br10012024, PyNone, PyInt(2), PyNaN),
          AbsRaw(Br10012024, Br15012024, PyNone, PyInt(1)),
          AbsRaw(Br10012024, Br15012024, PyMissing, PyInt(1)),
          AbsRaw(Br10012024, PyMissing, PyNaN, PyInt(1)),
          AbsRaw(Br10012024, PyNone, PyInt(2), PyMissing),
          [AbsRaw(Br10012024, Br12012024, PyInt(2), PyInt(1)) EXCEPT !.DT_NASCIMENTO = PyMissing]}

Fone == PyStr(<<"(", "1", "1", ")", " ", "5", "5", "5", "-", "0", "1">>)

FuncRaw(cpf, email, admissao, demissao) ==
    [CPF |-> cpf, TELEFONECELULAR |-> Fone, TELEFONERESIDENCIAL |-> PyNone,
     EMAIL |-> email, SEXO |-> PyInt(2), ESTADOCIVIL |-> PyInt(1),
     DATA_NASCIMENTO |-> Iso19900520,
     DATA_ADMISSAO |-> admissao, DATA_DEMISSAO |-> demissao]

FuncRawOk == FuncRaw(CpfValid, PyNone, Br10012024, PyNone)

FuncRawRows ==
    {FuncRaw(cpf, email, Br10012024, demissao) :
        cpf \in {CpfValid, CpfBadChecksum, CpfNoDigits, PyNone},
        email \in {PyNone, EmailBad},
        demissao \in {PyNone, Br05012024}}
    \cup {FuncRaw(CpfValid, EmailGood, Br10012024, Br12012024),
          FuncRaw(CpfValid, PyNone, PyNone, Br12012024),
          FuncRaw(PyNaN, PyNone, Br10012024, PyNone),
          FuncRaw(CpfValid, PyNaN, Br10012024, PyNone),
          [FuncRawOk EXCEPT !.DATA_NASCIMENTO = PyNone],
          [FuncRawOk EXCEPT !.DATA_NASCIMENTO = PyStr(<<"b", "a", "d">>)],
          [FuncRawOk EXCEPT !.TELEFONECELULAR = PyNaN],
          [FuncRawOk EXCEPT !.TELEFONERESIDENCIAL = PyMissing],
          [FuncRawOk EXCEPT !.DATA_NASCIMENTO = PyMissing],
          [FuncRawOk EXCEPT !.DATA_DEMISSAO = PyMissing],
          [FuncRawOk EXCEPT !.SEXO = PyMissing]}

Today == <<2024, 6, 15>>

InitEtl ==
    /\ dim_tempo = <<>>
    /\ dim_empresa = <<>>
    /\ dim_funcionario = <<>>
    /\ fato_absenteismo = <<>>
    /\ fato_convocacao = <<>>
    /\ clock = 0
    /\ last = [op |-> "none", input |-> <<>>, result |-> "none", error |-> "",
               misses |-> <<>>]
    /\ \/ \E frame \in SeqsUpTo(AbsRawRows, MaxFrame) :
            etl = [stage |-> "input", kind |-> "absenteismo", frame |-> frame,
                   today |-> Today, out |-> NoOut]
       \/ \E frame \in SeqsUpTo(FuncRawRows, MaxFrame) :
            etl = [stage |-> "input", kind |-> "funcionarios", frame |-> frame,
                   today |-> Today, out |-> NoOut]

RunAbsenteismoETL ==
    /\ etl.stage = "input"
    /\ etl.kind = "absenteismo"
    /\ etl' = [etl EXCEPT !.stage = "done", !.out = AbsProcessRawData(etl.frame)]
    /\ UNCHANGED <<dim_tempo, dim_empresa, dim_funcionario, fato_absenteismo,
                   fato_convocacao, clock, last>>

RunFuncionarioETL ==
    /\ etl.stage = "input"
    /\ etl.kind = "funcionarios"
    /\ etl' = [etl EXCEPT !.stage = "done",
                          !.out = FuncProcessRawData(etl.frame, etl.today)]
    /\ UNCHANGED <<dim_tempo, dim_empresa, dim_funcionario, fato_absenteismo,
                   fato_convocacao, clock, last>>

NextEtl == RunAbsenteismoETL \/ RunFuncionarioETL

SpecEtl == InitEtl /\ [][NextEtl]_vars

----------------------------------------------------------------------------
(* VencimentoETL and run_etl_pipeline *)

\* categorize_status with the upper thresholds taken exclusive
categorize_statusExclusive(days) ==
    IF days = <<>> THEN "SEM_DATA"
    ELSE IF days[1] < 0 THEN "VENCIDO"
    ELSE IF days[1] < 15 THEN "CRITICO"
    ELSE IF days[1] < 30 THEN "ATENCAO"
    ELSE IF days[1] < 60 THEN "ALERTA"
    ELSE "OK"

\* categorize_status(days) of _calculate_vencimento_metrics
categorize_status(days) ==
    IF days = <<>> THEN "SEM_DATA"
    ELSE IF days[1] < 0 THEN "VENCIDO"
    ELSE IF days[1] <= 15 THEN "CRITICO"
    ELSE IF days[1] <= 30 THEN "ATENCAO"
    ELSE IF days[1] <= 60 THEN "ALERTA"
    ELSE "OK"

\* the metrics with the critico flag ending at 15 days
VencDerivedCriticoFifteen(row, today) ==
    LET dias == IF row.dataVencimento = None THEN <<>>
                ELSE <<Ordinal(row.dataVencimento) - Ordinal(today)>>
    IN  [idx |-> row.idx,
         dataVencimento |-> row.dataVencimento,
         dias_para_vencimento |-> dias,
         vencido |-> dias # <<>> /\ dias[1] < 0,
         critico |-> dias # <<>> /\ dias[1] >= 0 /\ dias[1] <= 15,
         alerta |-> dias # <<>> /\ dias[1] > 30 /\ dias[1] <= 60,
         status_vencimento |-> categorize_status(dias)]

\* VencimentoETL._calculate_vencimento_metrics, one row; a comparison with a
\* missing day count is False
VencDerived(row, today) ==
    LET dias == IF row.dataVencimento = None THEN <<>>
                ELSE <<Ordinal(row.dataVencimento) - Ordinal(today)>>
    IN  [idx |-> row.idx,
         dataVencimento |-> row.dataVencimento,
         dias_para_vencimento |-> dias,
         vencido |-> dias # <<>> /\ dias[1] < 0,
         critico |-> dias # <<>> /\ dias[1] >= 0 /\ dias[1] <= 30,
         alerta |-> dias # <<>> /\ dias[1] > 30 /\ dias[1] <= 60,
         status_vencimento |-> categorize_status(dias)]

\* VencimentoETL.process_raw_data: parse_date on the date column when the
\* frame has it, then _calculate_vencimento_metrics, whose
\* data['dataVencimento'] raises KeyError on a frame without the column;
\* the error list stays empty
VencProcessRawData(raw_data, today) ==
    IF ~HasColumn(raw_data, "dataVencimento") THEN Raised("KeyError")
    ELSE Returned([i \in DOMAIN raw_data |->
                      VencDerived([idx |-> i - 1,
                                   dataVencimento |-> parse_date(Cell(raw_data, i, "dataVencimento"))],
                                  today)],
                  <<>>)

\* the 'summary' entry of one entity
SummaryOf(df, clean, errors) ==
    [total_records |-> Len(df), clean_records |-> Len(clean), errors |-> Len(errors)]

\* the dictionary run_etl_pipeline returns from the three ETL results
PipelineResults(funcionarios_df, absenteismo_df, vencimentos_df, func, abs, venc) ==
    IF func.result = "raised" THEN [result |-> "raised", error |-> func.error]
    ELSE IF abs.result = "raised" THEN [result |-> "raised", error |-> abs.error]
    ELSE IF venc.result = "raised" THEN [result |-> "raised", error |-> venc.error]
    ELSE [result |-> "ok",
          error |-> "",
          data |-> [funcionarios |-> func.data, absenteismo |-> abs.data,
                    vencimentos |-> venc.data],
          errors |-> [funcionarios |-> func.errors, absenteismo |-> abs.errors,
                      vencimentos |-> venc.errors],
          summary |-> [funcionarios |-> SummaryOf(funcionarios_df, func.data, func.errors),
                       absenteismo |-> SummaryOf(absenteismo_df, abs.data, abs.errors),
                       vencimentos |-> SummaryOf(vencimentos_df, venc.data, venc.errors)]]

\* run_etl_pipeline: the three ETLs in order; an exception of one of them
\* leaves the function; convocacoes_df and cat_df are not read
run_etl_pipeline(funcionarios_df, absenteismo_df, vencimentos_df, convocacoes_df, cat_df, today) ==
    PipelineResults(funcionarios_df, absenteismo_df, vencimentos_df,
                    FuncProcessRawData(funcionarios_df, today),
                    AbsProcessRawData(absenteismo_df),
                    VencProcessRawData(vencimentos_df, today))

Iso20240620 == PyStr(<<"2", "0", "2", "4", "-", "0", "6", "-", "2", "0">>)

VencRaw(vencimento) == [dataVencimento |-> vencimento]

PipeFuncFrames ==
    {<<>>,
     <<FuncRaw(CpfValid, EmailGood, Br10012024, PyNone)>>,
     <<FuncRaw(CpfBadChecksum, EmailBad, Br10012024, PyNone),
       FuncRaw(CpfValid, EmailGood, Br10012024, Br05012024)>>,
     <<FuncRaw(CpfValid, PyNone, PyNone, Br12012024)>>,
     <<[FuncRawOk EXCEPT !.DATA_NASCIMENTO = PyNone]>>,
     <<[FuncRawOk EXCEPT !.DATA_NASCIMENTO = PyNone], FuncRawOk>>,
     <<[FuncRawOk EXCEPT !.SEXO = PyMissing]>>}

PipeAbsFrames ==
    {<<>>,
     <<AbsRaw(Br10012024, Br12012024, PyNaN, PyInt(1))>>,
     <<AbsRaw(Br10012024, Br05012024, PyInt(-1), PyInt(1)),
       AbsRaw(Br10012024, PyNone, PyInt(2), PyInt(1))>>,
     <<AbsRaw(PyNone, Br12012024, PyInt(2), PyInt(1))>>,
     <<AbsRaw(Br10012024, PyNone, PyInt(2), PyNaN)>>,
     <<AbsRaw(Br10012024, Br15012024, PyNone, PyInt(1))>>,
     <<AbsRaw(Br10012024, Br15012024, PyMissing, PyInt(1))>>}

PipeVencFrames ==
    {<<>>, <<VencRaw(Iso20240620)>>, <<VencRaw(PyNone), VencRaw(Br10012024)>>,
     <<VencRaw(PyMissing)>>}

\* convocacoes_df and cat_df: a frame of n rows
PipeOtherFrames == {<<>>, <<[row |-> 0]>>}

InitPipeline ==
    /\ dim_tempo = <<>>
    /\ dim_empresa = <<>>
    /\ dim_funcionario = <<>>
    /\ fato_absenteismo = <<>>
    /\ fato_convocacao = <<>>
    /\ clock = 0
    /\ last = [op |-> "none", input |-> <<>>, result |-> "none", error |-> "",
               misses |-> <<>>]
    /\ \E f \in PipeFuncFrames, a \in PipeAbsFrames, v \in PipeVencFrames,
          c \in PipeOtherFrames, t \in PipeOtherFrames :
            etl = [stage |-> "input", kind |-> "pipeline",
                   frame |-> [funcionarios |-> f, absenteismo |-> a, vencimentos |-> v,
                              convocacoes |-> c, cat |-> t],
                   today |-> Today, out |-> NoOut]

RunEtlPipeline ==
    /\ etl.stage = "input"
    /\ etl.kind = "pipeline"
    /\ etl' = [etl EXCEPT !.stage = "done",
                          !.out = run_etl_pipeline(etl.frame.funcionarios,
                                                   etl.frame.absenteismo,
                                                   etl.frame.vencimentos,
                                                   etl.frame.convocacoes,
                                                   etl.frame.cat, etl.today)]
    /\ UNCHANGED <<dim_tempo, dim_empresa, dim_funcionario, fato_absenteismo,
                   fato_convocacao, clock, last>>

NextPipeline == RunEtlPipeline

SpecPipeline == InitPipeline /\ [][NextPipeline]_vars

----------------------------------------------------------------------------
(* FatoConvocacao: INSERT of one row under the table's constraints.  The   *)
(* exam dimension is taken as loaded with the exams the rows refer to.      *)

\* calls in a behaviour of the summons fact alone
MaxConvCalls == 3

ConvNotNull ==
    {"sk_funcionario", "sk_exame", "codigo_empresa", "codigo_funcionario", "codigo_exame"}

\* UniqueConstraint('codigo_funcionario', 'codigo_exame', name='uk_funcionario_exame')
ConvUniqueOk(tbl, row) ==
    \A i \in DOMAIN tbl :
        ~(/\ tbl[i].codigo_funcionario = row.codigo_funcionario
          /\ tbl[i].codigo_exame = row.codigo_exame)

\* ForeignKey('dim_funcionario.sk_funcionario')
ConvFkOk(row) == row.sk_funcionario # None /\ row.sk_funcionario[1] \in DOMAIN dim_funcionario

InsertConvocacaoErr(row) ==
    IF /\ NotNullOk(<<row>>, ConvNotNull)
       /\ ConvFkOk(row)
       /\ ConvUniqueOk(fato_convocacao, row)
    THEN "" ELSE "IntegrityError"

InsertConvocacao(row) ==
    /\ clock < MaxConvCalls
    /\ LET err == InsertConvocacaoErr(row)
       IN  /\ fato_convocacao' = Persist(fato_convocacao, <<row>>, err = "")
           /\ last' = Called("insert_convocacao", <<row>>, err, <<>>)
    /\ clock' = clock + 1
    /\ UNCHANGED <<dim_tempo, dim_empresa, dim_funcionario, fato_absenteismo, etl>>

\* a summons row of the employee stored at position sk_funcionario
Convocacao(sk_funcionario, codigo_exame, refazer, data_resultado) ==
    [sk_funcionario |-> <<sk_funcionario>>,
     sk_exame |-> <<codigo_exame>>,
     codigo_empresa |-> dim_funcionario[sk_funcionario].codigo_empresa,
     codigo_funcionario |-> dim_funcionario[sk_funcionario].codigo_funcionario,
     codigo_exame |-> <<codigo_exame>>,
     data_resultado |-> data_resultado,
     refazer |-> refazer]

ConvExames == {100, 101}

\* companies 1 and 2 loaded, each with an employee of code 10
InitConv ==
    /\ dim_tempo = <<>>
    /\ dim_empresa = EmpresaRecords(<<Empresa(PyInt(1), PyName("Empresa A")),
                                      Empresa(PyInt(2), PyName("Empresa B"))>>)
    /\ dim_funcionario = FuncionarioRecords(<<Funcionario(1, "S1"), Funcionario(2, "S1")>>, 0)
    /\ fato_absenteismo = <<>>
    /\ fato_convocacao = <<>>
    /\ clock = 0
    /\ last = [op |-> "none", input |-> <<>>, result |-> "none", error |-> "",
               misses |-> <<>>]
    /\ etl = Idle

\* the WHERE clause of get_funcionarios_convocacao_pendente: "refazer = 1 OR
\* data_resultado IS NULL", and " AND codigo_empresa = :codigo_empresa"
\* appended to it when codigo_empresa is truthy; AND binds tighter than OR
PendenteWhere(fc, codigo_empresa) ==
    IF codigo_empresa # None /\ codigo_empresa # <<0>>
    THEN fc.refazer \/ (fc.data_resultado = None /\ fc.codigo_empresa = codigo_empresa)
    ELSE fc.refazer \/ fc.data_resultado = None

\* the rows of the query; no row has a data_ultimo_pedido, so the ORDER BY
\* leaves them in stored order
ConvocacaoPendente(tbl, codigo_empresa) ==
    SelectRows(tbl, LAMBDA fc : PendenteWhere(fc, codigo_empresa))

\* ReportGenerator.get_funcionarios_convocacao_pendente: etl holds the
\* argument in frame and the returned rows in out.data
GetFuncionariosConvocacaoPendente(codigo_empresa) ==
    /\ etl' = [stage |-> "done", kind |-> "get_funcionarios_convocacao_pendente",
               frame |-> codigo_empresa, today |-> <<>>,
               out |-> Returned(ConvocacaoPendente(fato_convocacao, codigo_empresa), <<>>)]
    /\ UNCHANGED <<dim_tempo, dim_empresa, dim_funcionario, fato_absenteismo,
                   fato_convocacao, clock, last>>

\* result dates of a summons: none yet, or a date
ConvResultados == {None, <<2024, 1, 10>>}

\* company codes asked for: none, 0, and the two companies
ConvEmpresas == {None, <<0>>, <<1>>, <<2>>}

NextConv ==
    \/ \E sk \in DOMAIN dim_funcionario, exame \in ConvExames, refazer \in BOOLEAN,
          data_resultado \in ConvResultados :
            InsertConvocacao(Convocacao(sk, exame, refazer, data_resultado))
    \/ \E codigo_empresa \in ConvEmpresas :
            GetFuncionariosConvocacaoPendente(codigo_empresa)

SpecConv == InitConv /\ [][NextConv]_vars

----------------------------------------------------------------------------
(* The validators and transformers called on their own: etl holds the       *)
(* argument(s) in frame and, once the function has returned, its result in  *)
(* out.                                                                     *)

DigitChar(n) == CHOOSE c \in Digits : DigitVal(c) = n

\* the str of a sequence of digit values
DigitStr(ns) == PyStr([i \in DOMAIN ns |-> DigitChar(ns[i])])

KnownValidCpf == <<1, 1, 1, 4, 4, 4, 7, 7, 7, 3, 5>>

\* the first nine digits of the ids tried with every pair of trailing digits
CpfPrefixes ==
    {<<1, 1, 1, 4, 4, 4, 7, 7, 7>>, <<1, 2, 3, 4, 5, 6, 7, 8, 9>>,
     <<5, 2, 9, 9, 8, 2, 2, 4, 7>>, <<1, 1, 1, 1, 1, 1, 1, 1, 1>>,
     <<0, 0, 0, 0, 0, 0, 0, 0, 0>>}

\* every prefix with every trailing pair, every single-digit replacement in
\* the known valid id, and strings that are not 11 digits
CpfInputs ==
    {DigitStr(p \o <<a, b>>) : p \in CpfPrefixes, a \in 0..9, b \in 0..9}
    \cup {DigitStr([KnownValidCpf EXCEPT ![i] = d]) : i \in 1..11, d \in 0..9}
    \cup {CpfValid, CpfNoDigits, PyNone, DigitStr(<<1, 2, 3>>)}

\* Optional dates given to validate_date_range
DateArgs == {None, <<2024, 1, 5>>, <<2024, 1, 10>>, <<2024, 1, 12>>}

\* n as two decimal digits
TwoDigits(n) == <<DigitChar(n \div 10), DigitChar(n % 10)>>

\* the text of one directive of a format for the date d: day, month and
\* two-digit year zero-padded to two digits, the year to four
FormatField(d, tok) ==
    CASE tok = "%d" -> TwoDigits(d[3])
      [] tok = "%m" -> TwoDigits(d[2])
      [] tok = "%y" -> TwoDigits(d[1] % 100)
      [] tok = "%Y" -> TwoDigits(d[1] \div 100) \o TwoDigits(d[1] % 100)
      [] OTHER -> <<tok>>

RECURSIVE Format(_, _)
\* the date d written in the format fmt
Format(d, fmt) ==
    IF fmt = <<>> THEN <<>> ELSE FormatField(d, Head(fmt)) \o Format(d, Tail(fmt))

\* the six formats a date is written in
RoundTripFormats ==
    <<FmtDmySlash, FmtYmdDash, FmtDmyDash, FmtYmdPlain, FmtDmyShort, FmtYmdSlash>>

\* dates on both sides of the two-digit-year pivot, month ends and a leap day
RoundTripDates ==
    {d \in {1968, 1969, 2000, 2024, 2068, 2069} \X {1, 2, 12} \X {1, 9, 10, 29, 31} :
        IsValidDate(d[1], d[2], d[3])}

\* birth dates and reference dates around anniversaries and a leap day
BirthDates == {<<2000, 3, 1>>, <<2000, 2, 29>>, <<1990, 5, 20>>, <<2023, 12, 31>>}

ReferenceDates ==
    {<<2023, 12, 31>>, <<2024, 2, 28>>, <<2024, 2, 29>>, <<2024, 3, 1>>, <<2024, 5, 19>>,
     <<2024, 5, 20>>, <<2024, 12, 30>>, <<2025, 2, 28>>}

\* day counts given to the bucketing: NaN, a negative count, 0 .. MaxDias
DayCounts == {<<>>} \cup {<<n>> : n \in -1..MaxDias}

\* largest number of days to expiry given to the classification
MaxDiasVencimento == 62

\* days to expiry: no date, expired, 0 .. MaxDiasVencimento
ExpiryDays == {<<>>} \cup {<<n>> : n \in -2..MaxDiasVencimento}

\* what may precede a date in a cell: nothing, a blank, a carriage return
\* and line feed, or a form feed
DatePadding == {<<>>, <<" ">>, <<"\r", "\n">>, <<"\f">>}

\* the two parsers on the same value
ParseBoth(pv) == [transformer |-> parse_date(pv), loader |-> LoaderParseDate(pv)]

\* expiry dates from two days before Today to MaxDiasVencimento days after
\* it, and no date
ExpiryDates ==
    {None} \cup {d \in {2024} \X {6, 7, 8} \X (1..31) :
                   /\ IsValidDate(d[1], d[2], d[3])
                   /\ Ordinal(d) - Ordinal(Today) \in -2..MaxDiasVencimento}

\* largest age given to the age banding
MaxIdade == 70

\* ages: NaN (no birth date), a negative age, 0 .. MaxIdade
Ages == {<<>>} \cup {<<n>> : n \in -1..MaxIdade}

FnArgs(kind, args) ==
    [stage |-> "input", kind |-> kind, frame |-> args, today |-> Today, out |-> NoOut]

InitFn ==
    /\ dim_tempo = <<>>
    /\ dim_empresa = <<>>
    /\ dim_funcionario = <<>>
    /\ fato_absenteismo = <<>>
    /\ fato_convocacao = <<>>
    /\ clock = 0
    /\ last = [op |-> "none", input |-> <<>>, result |-> "none", error |-> "",
               misses |-> <<>>]
    /\ \/ \E cpf \in CpfInputs : etl = FnArgs("validate_cpf", cpf)
       \/ \E start \in DateArgs, end \in DateArgs :
            etl = FnArgs("validate_date_range", <<start, end>>)
       \/ \E d \in RoundTripDates, f \in DOMAIN RoundTripFormats :
            etl = FnArgs("parse_date",
                         [date |-> d, fmt |-> f,
                          text |-> PyStr(Format(d, RoundTripFormats[f]))])
       \/ \E birth \in BirthDates, ref \in ReferenceDates :
            etl = FnArgs("calculate_age", <<birth, ref>>)
       \/ \E dias \in DayCounts : etl = FnArgs("categoria_afastamento", dias)
       \/ \E days \in ExpiryDays : etl = FnArgs("categorize_status", days)
       \/ \E d \in RoundTripDates, f \in DOMAIN RoundTripFormats, pad \in DatePadding :
            etl = FnArgs("_parse_date",
                         [date |-> d, fmt |-> f,
                          text |-> PyStr(pad \o Format(d, RoundTripFormats[f]))])
       \/ \E d \in ExpiryDates :
            etl = FnArgs("_calculate_vencimento_metrics", [idx |-> 0, dataVencimento |-> d])
       \/ \E idade \in Ages : etl = FnArgs("faixa_etaria", idade)

FnReturns(kind, result) ==
    /\ etl.stage = "input"
    /\ etl.kind = kind
    /\ etl' = [etl EXCEPT !.stage = "done", !.out = result]
    /\ UNCHANGED <<dim_tempo, dim_empresa, dim_funcionario, fato_absenteismo,
                   fato_convocacao, clock, last>>

CallValidateCpf == FnReturns("validate_cpf", validate_cpf(etl.frame))

CallValidateDateRange ==
    FnReturns("validate_date_range", validate_date_range(etl.frame[1], etl.frame[2]))

CallParseDate == FnReturns("parse_date", parse_date(etl.frame.text))

CallCalculateAge ==
    FnReturns("calculate_age", calculate_age(etl.frame[1], etl.frame[2]))

CallCategoriaAfastamento ==
    FnReturns("categoria_afastamento", categoria_afastamento(etl.frame))

CallCategorizeStatus == FnReturns("categorize_status", categorize_status(etl.frame))

CallLoaderParseDate == FnReturns("_parse_date", ParseBoth(etl.frame.text))

CallCalculateVencimentoMetrics ==
    FnReturns("_calculate_vencimento_metrics", VencDerived(etl.frame, etl.today))

CallFaixaEtaria == FnReturns("faixa_etaria", faixa_etaria(etl.frame))

NextFn ==
    \/ CallValidateCpf
    \/ CallValidateDateRange
    \/ CallParseDate
    \/ CallCalculateAge
    \/ CallCategoriaAfastamento
    \/ CallCategorizeStatus
    \/ CallLoaderParseDate
    \/ CallCalculateVencimentoMetrics
    \/ CallFaixaEtaria

SpecFn == InitFn /\ [][NextFn]_vars

----------------------------------------------------------------------------
(* The reload script (__main__): truncate_all_tables, load_dim_tempo,      *)
(* load_empresas.  etl.frame is the position in tables_order and etl.out   *)
(* the statements and calls made so far, in order.                         *)

\* the tables in the order of the reload, each dimension before the tables
\* that reference it
tables_orderDimensionsFirst ==
    <<"dim_empresa", "dim_unidade", "dim_cargo", "dim_setor", "dim_tempo",
      "dim_exame", "dim_funcionario", "fato_vencimento", "fato_cat",
      "fato_convocacao", "fato_absenteismo">>

\* truncate_all_tables: "Ordem correta para evitar problemas de FK"
tables_order ==
    <<"fato_absenteismo", "fato_convocacao", "fato_cat", "fato_vencimento",
      "dim_funcionario", "dim_exame", "dim_tempo", "dim_setor", "dim_cargo",
      "dim_unidade", "dim_empresa">>

\* the tables the ForeignKey columns of a table point to
References(table) ==
    CASE table = "fato_absenteismo" -> {"dim_funcionario", "dim_tempo"}
      [] table = "fato_convocacao" -> {"dim_funcionario", "dim_exame", "dim_tempo"}
      [] table = "fato_cat" -> {"dim_funcionario", "dim_tempo"}
      [] table = "fato_vencimento" -> {"dim_empresa", "dim_tempo"}
      [] table = "dim_funcionario" -> {"dim_empresa"}
      [] table = "dim_unidade" -> {"dim_empresa"}
      [] OTHER -> {}

\* TRUNCATE TABLE table, on a table of the model
Truncated(tbl, name, table) == IF table = name THEN <<>> ELSE tbl

\* one iteration of "for table in tables_order"
TruncateTable ==
    /\ etl.kind = "main"
    /\ etl.stage = "truncate_all_tables"
    /\ etl.frame <= Len(tables_order)
    /\ LET table == tables_order[etl.frame]
       IN  /\ fato_absenteismo' = Truncated(fato_absenteismo, "fato_absenteismo", table)
           /\ fato_convocacao' = Truncated(fato_convocacao, "fato_convocacao", table)
           /\ dim_funcionario' = Truncated(dim_funcionario, "dim_funcionario", table)
           /\ dim_tempo' = Truncated(dim_tempo, "dim_tempo", table)
           /\ dim_empresa' = Truncated(dim_empresa, "dim_empresa", table)
           /\ etl' = [etl EXCEPT !.frame = @ + 1, !.out = Append(@, table)]
    /\ UNCHANGED <<clock, last>>

\* the end of the loop: session.commit() and the return to the script
TruncateCommit ==
    /\ etl.kind = "main"
    /\ etl.stage = "truncate_all_tables"
    /\ etl.frame > Len(tables_order)
    /\ last' = Called("truncate_all_tables", <<>>, "", <<>>)
    /\ etl' = [etl EXCEPT !.stage = "load_dim_tempo"]
    /\ clock' = clock + 1
    /\ UNCHANGED <<dim_tempo, dim_empresa, dim_funcionario, fato_absenteismo,
                   fato_convocacao>>

\* the range of the script's load_dim_tempo call
MainStart == <<2020, 1, 1>>

MainEnd == <<2025, 12, 31>>

\* empresas_exemplo
empresas_exemplo ==
    <<[codigo_empresa |-> PyInt(1), nome_empresa |-> PyName("Empresa A"),
       cnpj |-> PyName("12345678000199"), situacao |-> PyMissing],
      [codigo_empresa |-> PyInt(2), nome_empresa |-> PyName("Empresa B"),
       cnpj |-> PyName("98765432000188"), situacao |-> PyMissing]>>

\* where the script goes after a call: on, or out through its except block
MainAfter(err, stage) == IF err = "" THEN stage ELSE "raised"

\* "2. Carrega dimensões primeiro"
MainLoadDimTempo ==
    /\ etl.kind = "main"
    /\ etl.stage = "load_dim_tempo"
    /\ LET loop == TempoLoop(MainStart, MainEnd)
           err == IF loop.error # "" THEN loop.error ELSE LoadDimTempoErr(loop.records)
       IN  /\ dim_tempo' = Persist(dim_tempo, loop.records, err = "")
           /\ last' = Called("load_dim_tempo", <<MainStart, MainEnd>>, err, <<>>)
           /\ etl' = [etl EXCEPT !.stage = MainAfter(err, "load_empresas"),
                                 !.out = Append(@, "load_dim_tempo")]
    /\ clock' = clock + 1
    /\ UNCHANGED <<dim_empresa, dim_funcionario, fato_absenteismo, fato_convocacao>>

\* "3. Carrega dados de empresas (exemplo)"; steps 4 and 5 are comments, so
\* the script ends here
MainLoadEmpresas ==
    /\ etl.kind = "main"
    /\ etl.stage = "load_empresas"
    /\ LET err == LoadEmpresasErr(empresas_exemplo)
           records == IF err = "KeyError" THEN <<>> ELSE EmpresaRecords(empresas_exemplo)
       IN  /\ dim_empresa' = Persist(dim_empresa, records, err = "")
           /\ last' = Called("load_empresas", empresas_exemplo, err, <<>>)
           /\ etl' = [etl EXCEPT !.stage = MainAfter(err, "done"),
                                 !.out = Append(@, "load_empresas")]
    /\ clock' = clock + 1
    /\ UNCHANGED <<dim_tempo, dim_funcionario, fato_absenteismo, fato_convocacao>>

\* what an earlier run may have left in the store
MainEmpresas == {<<>>, <<Empresa(PyInt(1), PyName("Empresa A"))>>, empresas_exemplo}

MainTempo == {<<>>, <<MainStart, MainStart>>, <<MainStart, MainEnd>>}

MainFuncionarios ==
    {<<>>, <<Funcionario(1, "S1")>>, <<Funcionario(1, "S1"), Funcionario(1, "S2")>>}

InitMain ==
    /\ \E r \in MainTempo :
          dim_tempo = IF r = <<>> THEN <<>> ELSE TempoRecords(r[1], r[2])
    /\ \E batch \in MainEmpresas : dim_empresa = EmpresaRecords(batch)
    /\ \E batch \in MainFuncionarios :
          /\ batch # <<>> => dim_empresa # <<>>
          /\ dim_funcionario = FuncionarioRecords(batch, 0)
    /\ \E batch \in {<<>>, <<Absenteismo(1, Iso20240227, PyNone, PyName("M10"))>>} :
          /\ batch # <<>> => dim_funcionario # <<>> /\ dim_tempo # <<>>
          /\ fato_absenteismo = [i \in DOMAIN batch |-> AbsenteismoRecord(batch[i], 1)]
    /\ \E exames \in {<<>>, <<100>>, <<100, 101>>} :
          /\ exames # <<>> => dim_funcionario # <<>>
          /\ fato_convocacao = [i \in DOMAIN exames |-> Convocacao(1, exames[i], FALSE, None)]
    /\ clock = 0
    /\ last = [op |-> "none", input |-> <<>>, result |-> "none", error |-> "",
               misses |-> <<>>]
    /\ etl = [stage |-> "truncate_all_tables", kind |-> "main", frame |-> 1,
              today |-> Today, out |-> <<>>]

NextMain ==
    \/ TruncateTable
    \/ TruncateCommit
    \/ MainLoadDimTempo
    \/ MainLoadEmpresas

SpecMain == InitMain /\ [][NextMain]_vars

----------------------------------------------------------------------------
(* The while loop of load_dim_tempo, one iteration at a time.  etl.frame   *)
(* holds start_date, end_date and current_date, etl.out the tempo_records  *)
(* built so far.                                                           *)

\* the loop body: append the record of current_date, then increment it
LoopIterate ==
    /\ etl.kind = "load_dim_tempo"
    /\ etl.stage = "loop"
    /\ DateLE(etl.frame.current, etl.frame.end)
    /\ HasNextDate(etl.frame.current)
    /\ etl' = [etl EXCEPT !.frame.current = NextDate(@),
                          !.out = Append(@, TempoRecord(etl.frame.current))]
    /\ UNCHANGED <<dim_tempo, dim_empresa, dim_funcionario, fato_absenteismo,
                   fato_convocacao, clock, last>>

\* the increment raises: except Exception, session.rollback(), raise
LoopRaises ==
    /\ etl.kind = "load_dim_tempo"
    /\ etl.stage = "loop"
    /\ DateLE(etl.frame.current, etl.frame.end)
    /\ ~HasNextDate(etl.frame.current)
    /\ etl' = [etl EXCEPT !.stage = "raised",
                          !.out = Append(@, TempoRecord(etl.frame.current))]
    /\ last' = Called("load_dim_tempo", <<etl.frame.start, etl.frame.end>>, "ValueError", <<>>)
    /\ clock' = clock + 1
    /\ UNCHANGED <<dim_tempo, dim_empresa, dim_funcionario, fato_absenteismo,
                   fato_convocacao>>

\* the condition is false: add_all, commit
LoopExit ==
    /\ etl.kind = "load_dim_tempo"
    /\ etl.stage = "loop"
    /\ ~DateLE(etl.frame.current, etl.frame.end)
    /\ LET err == LoadDimTempoErr(etl.out)
       IN  /\ dim_tempo' = Persist(dim_tempo, etl.out, err = "")
           /\ last' = Called("load_dim_tempo", <<etl.frame.start, etl.frame.end>>, err, <<>>)
    /\ etl' = [etl EXCEPT !.stage = "done"]
    /\ clock' = clock + 1
    /\ UNCHANGED <<dim_empresa, dim_funcionario, fato_absenteismo, fato_convocacao>>

\* most days from start_date to end_date
MaxSpan == 70

\* dates around a month end, a year end, a leap day and date.max
LoopDates ==
    {<<2023, 12, 27>>, <<2023, 12, 31>>, <<2024, 1, 2>>, <<2024, 2, 27>>, <<2024, 2, 29>>,
     <<2024, 3, 1>>, <<9999, 12, 27>>, <<9999, 12, 31>>}

InitLoop ==
    /\ dim_tempo = <<>>
    /\ dim_empresa = <<>>
    /\ dim_funcionario = <<>>
    /\ fato_absenteismo = <<>>
    /\ fato_convocacao = <<>>
    /\ clock = 0
    /\ last = [op |-> "none", input |-> <<>>, result |-> "none", error |-> "",
               misses |-> <<>>]
    /\ \E start \in LoopDates, end \in LoopDates :
          /\ Ordinal(end) - Ordinal(start) <= MaxSpan
          /\ etl = [stage |-> "loop", kind |-> "load_dim_tempo",
                    frame |-> [start |-> start, end |-> end, current |-> start],
                    today |-> Today, out |-> <<>>]

NextLoop == LoopIterate \/ LoopRaises \/ LoopExit

\* in the loop, current_date is DateAfter of the iterations made
LoopDateIsDateAfter ==
    (etl.kind = "load_dim_tempo" /\ etl.stage = "loop")
    => etl.frame.current = DateAfter(etl.frame.start, Len(etl.out))

\* when the loop is left, it has built the records and met the error of TempoLoop
LoopResultIsTempoLoop ==
    (etl.kind = "load_dim_tempo" /\ etl.stage \in {"done", "raised"})
    => LET loop == TempoLoop(etl.frame.start, etl.frame.end)
       IN  /\ etl.out = loop.records
           /\ (etl.stage = "raised") <=> (loop.error = "ValueError")

\* the loop is the only thing running: a step that can be taken is taken
SpecLoop == InitLoop /\ [][NextLoop]_vars /\ WF_vars(NextLoop)

----------------------------------------------------------------------------
(* Properties *)

Rows(tbl) == {tbl[i] : i \in DOMAIN tbl}

SameNaturalKey(f, g) ==
    f.codigo_empresa = g.codigo_empresa /\ f.codigo_funcionario = g.codigo_funcionario

TrackedColumns ==
    {"nome", "cpf", "data_nascimento", "sexo", "matricula_funcionario", "situacao",
     "data_admissao", "nome_unidade", "nome_setor"}

SameTracked(f, g) == \A c \in TrackedColumns : f[c] = g[c]

ActiveVersions(f) ==
    {j \in DOMAIN dim_funcionario :
        SameNaturalKey(dim_funcionario[j], f) /\ dim_funcionario[j].registro_ativo}

\* C1: every natural key of the employee dimension has exactly one active
\* version, and the closed versions of a key have validity windows that do
\* not overlap.
C1_ExactlyOneActiveVersion ==
    /\ \A i \in DOMAIN dim_funcionario :
          Cardinality(ActiveVersions(dim_funcionario[i])) = 1
    /\ \A i, j \in DOMAIN dim_funcionario :
          LET f == dim_funcionario[i]
              g == dim_funcionario[j]
          IN  (i # j /\ SameNaturalKey(f, g) /\ f.data_fim_validade # None
                 /\ f.data_inicio_validade[1] <= g.data_inicio_validade[1])
              => f.data_fim_validade[1] <= g.data_inicio_validade[1]

\* C2: a successful load_funcionarios of a row whose natural key had an
\* active version with a different tracked attribute closes that version
\* (end = as_of, active = false) and inserts the new one (start = as_of, end
\* open, active = true) in the same step.
C2_ChangedVersionClosedAndReplaced ==
    [][(last'.op = "load_funcionarios" /\ last'.result = "ok")
        => \A k \in DOMAIN last'.input : \A i \in DOMAIN dim_funcionario :
             LET asked == FuncionarioRecord(last'.input[k], clock)
                 old == dim_funcionario[i]
             IN  (old.registro_ativo /\ SameNaturalKey(old, asked)
                    /\ ~SameTracked(old, asked))
                 => /\ dim_funcionario'[i].registro_ativo = FALSE
                    /\ dim_funcionario'[i].data_fim_validade = <<clock>>
                    /\ \E j \in DOMAIN dim_funcionario' :
                         /\ j \notin DOMAIN dim_funcionario
                         /\ SameNaturalKey(dim_funcionario'[j], asked)
                         /\ dim_funcionario'[j].registro_ativo
                         /\ dim_funcionario'[j].data_inicio_validade = <<clock>>
                         /\ dim_funcionario'[j].data_fim_validade = None]_vars

\* C3: a successful load_funcionarios whose every row has an active version
\* with the same tracked attributes inserts and modifies nothing.
C3_UnchangedLoadIsNoOp ==
    [][(/\ last'.op = "load_funcionarios"
        /\ last'.result = "ok"
        /\ \A k \in DOMAIN last'.input : \E i \in DOMAIN dim_funcionario :
              LET asked == FuncionarioRecord(last'.input[k], clock)
              IN  /\ dim_funcionario[i].registro_ativo
                  /\ SameNaturalKey(dim_funcionario[i], asked)
                  /\ SameTracked(dim_funcionario[i], asked))
        => dim_funcionario' = dim_funcionario]_vars

\* the calendar of the years the ranges are drawn from
CalendarDates ==
    {dt \in (2023..2024) \X (1..12) \X (1..31) : IsValidDate(dt[1], dt[2], dt[3])}

InRange(d, range) == DateLE(range[1], d) /\ DateLE(d, range[2])

TempoRowsOf(d) == {i \in DOMAIN dim_tempo : dim_tempo[i].data_completa = d}

\* C4: after load_dim_tempo(start, end) on an empty time dimension, with
\* start <= end, every calendar date of [start, end] has exactly one row and
\* no other date has a row.
C4_EveryDateOfRangeOnce ==
    (clock = 1 /\ last.op = "load_dim_tempo" /\ DateLE(last.input[1], last.input[2]))
    => /\ last.result = "ok"
       /\ \A d \in CalendarDates :
             Cardinality(TempoRowsOf(d)) = IF InRange(d, last.input) THEN 1 ELSE 0

Overlap(r1, r2) == \E d \in CalendarDates : InRange(d, r1) /\ InRange(d, r2)

\* C5: a load_dim_tempo that follows a successful load_dim_tempo of an
\* overlapping range succeeds too, and leaves exactly one row for every date
\* of the union of the two ranges.
C5_OverlappingRerunIdempotent ==
    [][(/\ last.op = "load_dim_tempo"
        /\ last.result = "ok"
        /\ clock = 1
        /\ last'.op = "load_dim_tempo"
        /\ Overlap(last.input, last'.input))
        => /\ last'.result = "ok"
           /\ \A d \in CalendarDates :
                (InRange(d, last.input) \/ InRange(d, last'.input))
                => Cardinality({i \in DOMAIN dim_tempo' :
                                   dim_tempo'[i].data_completa = d}) = 1]_vars

\* the active versions whose lookup columns equal the raw row's values
ActiveMatchesOfRaw(abs_data) ==
    {i \in DOMAIN dim_funcionario :
        /\ dim_funcionario[i].registro_ativo
        /\ dim_funcionario[i].codigo_empresa
             = ColumnOf(DictGet(abs_data, "EMPRESA", PyInt(0)))
        /\ dim_funcionario[i].nome_unidade = ColumnOf(abs_data.UNIDADE)
        /\ dim_funcionario[i].nome_setor = ColumnOf(abs_data.SETOR)
        /\ dim_funcionario[i].data_nascimento = LoaderParseDate(abs_data.DT_NASCIMENTO)
        /\ dim_funcionario[i].sexo = ColumnOf(abs_data.SEXO)}

\* C6: every absence fact references a stored employee version that is
\* active and has the fact's (company, unit, sector, birth date, sex); and
\* when load_absenteismo ran through its batch, the rows with no such active
\* version are exactly the rows it warned about, and it built no fact for them.
C6_FactsReferenceActiveMatchingVersion ==
    /\ \A r \in Rows(fato_absenteismo) :
          /\ r.sk_funcionario # None
          /\ r.sk_funcionario[1] \in DOMAIN dim_funcionario
          /\ LET f == dim_funcionario[r.sk_funcionario[1]]
             IN  /\ f.registro_ativo
                 /\ f.codigo_empresa = r.codigo_empresa
                 /\ f.nome_unidade = r.unidade
                 /\ f.nome_setor = r.setor
                 /\ f.data_nascimento = r.data_nascimento
                 /\ f.sexo = r.sexo
    /\ (last.op = "load_absenteismo" /\ last.error # "KeyError")
       => /\ \A k \in DOMAIN last.input :
               (ActiveMatchesOfRaw(last.input[k]) = {}) <=> (k \in Range(last.misses))
          /\ \A k \in Range(last.misses) :
               ~\E r \in Rows(fato_absenteismo) :
                   /\ r.sexo = ColumnOf(last.input[k].SEXO)
                   /\ r.setor = ColumnOf(last.input[k].SETOR)
                   /\ r.unidade = ColumnOf(last.input[k].UNIDADE)
                   /\ r.data_nascimento = LoaderParseDate(last.input[k].DT_NASCIMENTO)
                   /\ r.codigo_empresa
                        = ColumnOf(DictGet(last.input[k], "EMPRESA", PyInt(0)))

\* a batch loaded one fact and warned about the row of the other sex
C6_Witness ==
    /\ last.op = "load_absenteismo"
    /\ last.result = "ok"
    /\ last.misses # <<>>
    /\ Len(last.input) > Len(last.misses)
    /\ fato_absenteismo # <<>>

\* C7: load_absenteismo never raises for a bad row, and no stored fact has a
\* null surrogate key (employee, start date, or end date when an end date is
\* given).
C7_BadRowNeverRaises ==
    /\ last.op = "load_absenteismo" => last.result = "ok"
    /\ \A r \in Rows(fato_absenteismo) :
          /\ r.sk_funcionario # None
          /\ r.sk_tempo_inicio # None
          /\ r.data_fim_atestado # None => r.sk_tempo_fim # None

Grown(tbl, tblAfter, n) ==
    Len(tblAfter) = Len(tbl) + n /\ SubSeq(tblAfter, 1, Len(tbl)) = tbl

\* C8: every loader call either raises and leaves the four tables as they
\* were, or returns and has appended one row for every record of its unit
\* (every input row; for load_absenteismo every row it did not warn about;
\* for load_dim_tempo every date its loop visited) and changed nothing else.
C8_LoadUnitAtomic ==
    [][(last'.op # "none" /\ clock' = clock + 1)
        => /\ last'.result \in {"ok", "raised"}
           /\ last'.result = "raised" => tables' = tables
           /\ (last'.result = "ok" /\ last'.op = "load_dim_tempo")
              => /\ Grown(dim_tempo, dim_tempo',
                          Len(TempoRecords(last'.input[1], last'.input[2])))
                 /\ UNCHANGED <<dim_empresa, dim_funcionario, fato_absenteismo>>
           /\ (last'.result = "ok" /\ last'.op = "load_empresas")
              => /\ Grown(dim_empresa, dim_empresa', Len(last'.input))
                 /\ \A k \in DOMAIN last'.input :
                       dim_empresa'[Len(dim_empresa) + k].codigo_empresa
                         = ColumnOf(last'.input[k].codigo_empresa)
                 /\ UNCHANGED <<dim_tempo, dim_funcionario, fato_absenteismo>>
           /\ (last'.result = "ok" /\ last'.op = "load_funcionarios")
              => /\ Grown(dim_funcionario, dim_funcionario', Len(last'.input))
                 /\ \A k \in DOMAIN last'.input :
                       dim_funcionario'[Len(dim_funcionario) + k].nome_setor
                         = ColumnOf(DictGet(last'.input[k], "NOMESETOR", PyNone))
                 /\ UNCHANGED <<dim_tempo, dim_empresa, fato_absenteismo>>
           /\ (last'.result = "ok" /\ last'.op = "load_absenteismo")
              => /\ Grown(fato_absenteismo, fato_absenteismo',
                          Len(last'.input) - Len(last'.misses))
                 /\ UNCHANGED <<dim_tempo, dim_empresa, dim_funcionario>>]_vars

\* a two-row batch failed on its second row after an earlier unit had
\* committed, and a two-row batch was committed whole
C8_Witness ==
    /\ last.op = "load_empresas"
    /\ last.result = "raised"
    /\ last.error = "IntegrityError"
    /\ Len(last.input) = 2
    /\ Len(dim_funcionario) = 2

\* C9: load_empresas of rows whose natural code is already stored, or occurs
\* twice in the batch, returns normally and leaves one row per code, with the
\* attributes of the last row given for that code.
C9_CompanyCollisionOverwrites ==
    (last.op = "load_empresas" /\ last.error # "KeyError")
    => /\ last.result = "ok"
       /\ \A k \in DOMAIN last.input :
             LET same == {i \in DOMAIN dim_empresa :
                             dim_empresa[i].codigo_empresa
                               = ColumnOf(last.input[k].codigo_empresa)}
                 latest == CHOOSE m \in DOMAIN last.input :
                             /\ last.input[m].codigo_empresa = last.input[k].codigo_empresa
                             /\ \A n \in DOMAIN last.input :
                                   last.input[n].codigo_empresa = last.input[k].codigo_empresa
                                   => n <= m
             IN  /\ Cardinality(same) = 1
                 /\ \A i \in same :
                       dim_empresa[i].nome_empresa
                         = ColumnOf(last.input[latest].nome_empresa)

\* the rows of a frame that fail a domain rule
AbsFailsRule(raw) ==
    LET inicio == parse_date(raw.DT_INICIO_ATESTADO)
        fim == parse_date(raw.DT_FIM_ATESTADO)
    IN  \/ inicio # None /\ fim # None /\ DateLT(fim, inicio)
        \/ raw.DIAS_AFASTADOS.t = "int" /\ raw.DIAS_AFASTADOS.v[1] < 0

FuncFailsRule(raw) ==
    LET admissao == parse_date(raw.DATA_ADMISSAO)
        demissao == parse_date(raw.DATA_DEMISSAO)
    IN  \/ admissao # None /\ demissao # None /\ DateLT(demissao, admissao)
        \/ Truthy(raw.EMAIL) /\ ~validate_email(raw.EMAIL)
        \/ Truthy(clean_cpf(raw.CPF)) /\ ~validate_cpf(raw.CPF)

\* C10: when process_raw_data returns, every row that fails a domain rule has
\* an entry in the error list and is not among the returned rows.
C10_FailingRowsRecordedAndExcluded ==
    (etl.stage = "done" /\ etl.out.result = "ok")
    => \A k \in DOMAIN etl.frame :
          (IF etl.kind = "absenteismo" THEN AbsFailsRule(etl.frame[k])
           ELSE FuncFailsRule(etl.frame[k]))
          => /\ \E e \in Rows(etl.out.errors) : e.row = k - 1
             /\ ~\E d \in Rows(etl.out.data) : d.idx = k - 1

\* C11: with a company, a time dimension and one employee loaded, loading one
\* complete absence row whose start date has a time row gives, when the row
\* resolves to the employee, exactly one fact whose day count is the supplied
\* one or, when none is supplied, the Monday-to-Friday count of [start, end]
\* ([start, start] without an end); and, when the row does not resolve, no
\* fact and exactly one reported miss.
C11_EndToEndAbsence ==
    (/\ clock = 4
     /\ last.op = "load_absenteismo"
     /\ Len(last.input) = 1
     /\ dim_tempo # <<>> /\ dim_empresa # <<>> /\ Len(dim_funcionario) = 1
     /\ HasKeys(last.input[1], AbsLookupKeys \cup AbsRecordKeys)
     /\ TempoRowsOf(LoaderParseDate(last.input[1].DT_INICIO_ATESTADO)) # {})
    => LET raw == last.input[1]
           inicio == LoaderParseDate(raw.DT_INICIO_ATESTADO)
           fim == LoaderParseDate(DictGet(raw, "DT_FIM_ATESTADO", PyNone))
           dias == IF raw.DIAS_AFASTADOS.t = "int" THEN raw.DIAS_AFASTADOS.v
                   ELSE <<calculate_work_days(inicio, IF fim # None THEN fim ELSE inicio)>>
       IN  /\ last.result = "ok"
           /\ IF ActiveMatchesOfRaw(raw) # {}
              THEN /\ Len(fato_absenteismo) = 1
                   /\ fato_absenteismo[1].dias_afastados = dias
                   /\ categoria_afastamento(fato_absenteismo[1].dias_afastados)
                        = categoria_afastamento(dias)
                   /\ last.misses = <<>>
              ELSE /\ fato_absenteismo = <<>>
                   /\ last.misses = <<1>>

SameSummonsKey(a, b) ==
    /\ a.codigo_empresa = b.codigo_empresa
    /\ a.codigo_funcionario = b.codigo_funcionario
    /\ a.codigo_exame = b.codigo_exame

\* C12: a summons row is rejected as a duplicate if and only if a stored row
\* agrees with it on company code, employee code and exam code; an accepted
\* row is stored.
C12_SummonsUniquePerCompanyEmployeeExam ==
    [][(last'.op = "insert_convocacao" /\ clock' = clock + 1)
        => LET row == last'.input[1]
           IN  /\ (last'.result = "raised")
                  <=> \E i \in DOMAIN fato_convocacao : SameSummonsKey(fato_convocacao[i], row)
               /\ last'.result = "ok" => fato_convocacao' = Append(fato_convocacao, row)]_vars

Entities == {"funcionarios", "absenteismo", "vencimentos", "convocacoes", "cat"}

\* C13: run_etl_pipeline always returns, and its summary has, for each of
\* the five input entities, the number of input rows, the number of rows
\* loaded and the errors of the entity in row order.
C13_PipelineReturnsCompleteSummary ==
    (etl.stage = "done" /\ etl.kind = "pipeline")
    => /\ etl.out.result = "ok"
       /\ Entities \subseteq DOMAIN etl.out.summary
       /\ \A e \in Entities :
             /\ etl.out.summary[e].total_records = Len(etl.frame[e])
             /\ etl.out.summary[e].clean_records = Len(etl.out.data[e])
             /\ \A i, j \in DOMAIN etl.out.errors[e] :
                   i < j => etl.out.errors[e][i].row <= etl.out.errors[e][j].row

HasReturned(kind) == etl.stage = "done" /\ etl.kind = kind

\* the digit values of an all-digit str
DigitsOf(pv) == [i \in DOMAIN pv.v |-> DigitVal(pv.v[i])]

IsDigitStr(pv, n) ==
    pv.t = "str" /\ Len(pv.v) = n /\ \A i \in DOMAIN pv.v : pv.v[i] \in Digits

RECURSIVE DescendingSum(_, _, _)
\* ds[1] * w + ds[2] * (w - 1) + ... over the first n digits
DescendingSum(ds, n, w) ==
    IF n = 0 THEN 0 ELSE ds[1] * w + DescendingSum(Tail(ds), n - 1, w - 1)

\* the check digit of the first n digits: weights n + 1 down to 2
CheckDigit(ds, n) ==
    LET r == DescendingSum(ds, n, n + 1) % 11 IN IF r < 2 THEN 0 ELSE 11 - r

CheckDigitsMatch(ds) == ds[10] = CheckDigit(ds, 9) /\ ds[11] = CheckDigit(ds, 10)

AllSameDigit(ds) == \A i \in DOMAIN ds : ds[i] = ds[1]

\* C14 as stated: for every string of exactly 11 digits, validate_cpf
\* returns true if and only if both check digits equal the trailing digits.
C14_AcceptsIffCheckDigitsMatch ==
    (HasReturned("validate_cpf") /\ IsDigitStr(etl.frame, 11))
    => (etl.out <=> CheckDigitsMatch(DigitsOf(etl.frame)))

\* C14 amended: for every string of exactly 11 digits, validate_cpf returns
\* true if and only if the digits are not all the same and both check digits
\* equal the trailing digits.
C14_AcceptsIffNotUniformAndCheckDigitsMatch ==
    (HasReturned("validate_cpf") /\ IsDigitStr(etl.frame, 11))
    => (etl.out <=> (~AllSameDigit(DigitsOf(etl.frame))
                       /\ CheckDigitsMatch(DigitsOf(etl.frame))))

\* eleven 1s, whose check digits match, were rejected
C14_Witness ==
    /\ HasReturned("validate_cpf")
    /\ etl.frame = DigitStr(<<1, 1, 1, 1, 1, 1, 1, 1, 1, 1, 1>>)
    /\ CheckDigitsMatch(DigitsOf(etl.frame))
    /\ etl.out = FALSE

\* C15: validate_cpf accepts "11144477735" and rejects each of the 99
\* strings that differ from it in exactly one digit.
C15_KnownIdAndItsMutations ==
    HasReturned("validate_cpf")
    => /\ etl.frame = DigitStr(KnownValidCpf) => etl.out = TRUE
       /\ \A i \in 1..11, d \in 0..9 :
             (d # KnownValidCpf[i] /\ etl.frame = DigitStr([KnownValidCpf EXCEPT ![i] = d]))
             => etl.out = FALSE

\* the id with its first digit, whose weight in the second check digit is
\* 11, replaced was rejected
C15_Witness ==
    /\ HasReturned("validate_cpf")
    /\ etl.frame = DigitStr([KnownValidCpf EXCEPT ![1] = 2])
    /\ etl.out = FALSE

\* C16: validate_date_range never raises, and for every present or absent
\* start and end it returns true exactly when the end is absent or is not
\* before the start.
C16_DateRangeTotal ==
    HasReturned("validate_date_range")
    => LET start == etl.frame[1]
           end == etl.frame[2]
       IN  /\ etl.out \in {"ok", "bad"}
           /\ (etl.out = "ok") <=> (end = None \/ (start # None /\ DateLE(start, end)))

\* C17 as stated: parse_date of a date written in any of the six formats is
\* that date.
C17_RoundTripEveryFormat ==
    HasReturned("parse_date") => etl.out = etl.frame.date

\* C17 amended: parse_date of a date written as DD/MM/YYYY, YYYY-MM-DD,
\* DD-MM-YYYY, YYYYMMDD or YYYY/MM/DD is that date; written as DD/MM/YY it
\* is that date when the year is in 1969..2068, and otherwise the date of the
\* same month and day in the year of 1969..2068 with the same last two digits.
C17_RoundTripWithinPivot ==
    HasReturned("parse_date")
    => LET d == etl.frame.date
           yy == d[1] % 100
       IN  IF RoundTripFormats[etl.frame.fmt] = <<"%d", "/", "%m", "/", "%y">>
           THEN etl.out = <<(IF yy >= 69 THEN 1900 ELSE 2000) + yy, d[2], d[3]>>
                /\ (d[1] \in 1969..2068 => etl.out = d)
           ELSE etl.out = d

\* 29 February 2024 written as 29/02/24 was parsed back
C17_Witness ==
    /\ HasReturned("parse_date")
    /\ etl.frame.text = PyStr(<<"2", "9", "/", "0", "2", "/", "2", "4">>)
    /\ etl.frame.date = <<2024, 2, 29>>
    /\ etl.out = <<2024, 2, 29>>

\* C18: calculate_age(birth, reference) is reference.year - birth.year, less
\* one exactly when the reference's (month, day) is before the birth's; a
\* birth on 2000-03-01 gives 23 on 2024-02-29 and 24 on 2024-03-01.
C18_AgeByAnniversary ==
    HasReturned("calculate_age")
    => LET birth == etl.frame[1]
           ref == etl.frame[2]
           before == ref[2] * 100 + ref[3] < birth[2] * 100 + birth[3]
       IN  /\ etl.out = ref[1] - birth[1] - (IF before THEN 1 ELSE 0)
           /\ (birth = <<2000, 3, 1>> /\ ref = <<2024, 2, 29>>) => etl.out = 23
           /\ (birth = <<2000, 3, 1>> /\ ref = <<2024, 3, 1>>) => etl.out = 24

\* the age on the day before the 24th anniversary was returned
C18_Witness ==
    /\ HasReturned("calculate_age")
    /\ etl.frame = <<<<2000, 3, 1>>, <<2024, 2, 29>>>>
    /\ etl.out = 23

\* the Monday-to-Friday dates of the inclusive range
WeekdaysBetween(start, end) ==
    {dt \in CalendarDates : DateLE(start, dt) /\ DateLE(dt, end) /\ Weekday(dt) < 5}

\* an absence row with a start date, a sex, a certificate type and the
\* birth-date key, whose day count is a number or missing (NaN, None, or no
\* key at all); its end date may be missing in the same ways
AbsComplete(raw) ==
    /\ parse_date(raw.DT_INICIO_ATESTADO) # None
    /\ raw.SEXO.t = "int"
    /\ raw.TIPO_ATESTADO.t = "int"
    /\ raw.DT_NASCIMENTO.t # "missing"
    /\ raw.DIAS_AFASTADOS.t \in {"int", "nan", "none", "missing"}
    /\ raw.DT_FIM_ATESTADO.t \in {"str", "none", "missing"}

\* C19: AbsenteismoETL.process_raw_data on a frame of such rows returns
\* every row; a row given without a days-absent value has the number of
\* Monday-to-Friday dates of [start, end], or of [start, start] when it has
\* no end date, and a row given with a value keeps it.
C19_MissingDaysAreBusinessDays ==
    (/\ etl.stage = "done" /\ etl.kind = "absenteismo"
     /\ etl.frame # <<>>
     /\ \A k \in DOMAIN etl.frame : AbsComplete(etl.frame[k]))
    => /\ etl.out.result = "ok"
       /\ \A k \in DOMAIN etl.frame :
             \E d \in Rows(etl.out.data) :
                LET raw == etl.frame[k]
                    inicio == parse_date(raw.DT_INICIO_ATESTADO)
                    fim == parse_date(raw.DT_FIM_ATESTADO)
                IN  /\ d.idx = k - 1
                    /\ IF raw.DIAS_AFASTADOS.t = "int"
                       THEN d.dias_afastados = raw.DIAS_AFASTADOS.v
                       ELSE d.dias_afastados
                              = <<Cardinality(WeekdaysBetween(inicio,
                                                              IF fim # None THEN fim ELSE inicio))>>

\* the day counts of each bucket
BucketDays(label, n) ==
    CASE label = "1 dia" -> n = 1
      [] label = "2-3 dias" -> n \in 2..3
      [] label = "4-7 dias" -> n \in 4..7
      [] label = "8-15 dias" -> n \in 8..15
      [] label = "16-30 dias" -> n \in 16..30
      [] label = ">30 dias" -> n > 30
      [] OTHER -> FALSE

BucketLabels == {"1 dia", "2-3 dias", "4-7 dias", "8-15 dias", "16-30 dias", ">30 dias"}

\* the buckets the nine listed day counts are to fall in
ListedBuckets ==
    <<[dias |-> 1, label |-> "1 dia"], [dias |-> 2, label |-> "2-3 dias"],
      [dias |-> 3, label |-> "2-3 dias"], [dias |-> 7, label |-> "4-7 dias"],
      [dias |-> 8, label |-> "8-15 dias"], [dias |-> 15, label |-> "8-15 dias"],
      [dias |-> 16, label |-> "16-30 dias"], [dias |-> 30, label |-> "16-30 dias"],
      [dias |-> 31, label |-> ">30 dias"]>>

\* C20: the duration bucket of a positive whole day count is the one bucket
\* of {1}, {2-3}, {4-7}, {8-15}, {16-30}, {>30} that contains it; 1, 2, 3, 7,
\* 8, 15, 16, 30, 31 fall in "1 dia", "2-3", "2-3", "4-7", "8-15", "8-15",
\* "16-30", "16-30", ">30".
C20_DurationBuckets ==
    (HasReturned("categoria_afastamento") /\ etl.frame # <<>> /\ etl.frame[1] >= 1)
    => /\ Len(etl.out) = 1
       /\ etl.out[1] \in BucketLabels
       /\ \A label \in BucketLabels : BucketDays(label, etl.frame[1]) <=> etl.out[1] = label
       /\ \A k \in DOMAIN ListedBuckets :
             etl.frame[1] = ListedBuckets[k].dias => etl.out[1] = ListedBuckets[k].label

\* 15 days fell in the 8-15 bucket
C20_Witness ==
    /\ HasReturned("categoria_afastamento")
    /\ etl.frame = <<15>>
    /\ etl.out = <<"8-15 dias">>

\* the status the thresholds give to a number of days to expiry
StatusOfDays(n) ==
    IF n < 0 THEN "VENCIDO"
    ELSE IF n \in 0..15 THEN "CRITICO"
    ELSE IF n \in 16..30 THEN "ATENCAO"
    ELSE IF n \in 31..60 THEN "ALERTA"
    ELSE "OK"

\* the inputs listed for the expiry status and the status each one gets
ListedStatuses ==
    {<<<<-1>>, "VENCIDO">>, <<<<0>>, "CRITICO">>, <<<<15>>, "CRITICO">>,
     <<<<16>>, "ATENCAO">>, <<<<30>>, "ATENCAO">>, <<<<31>>, "ALERTA">>,
     <<<<60>>, "ALERTA">>, <<<<61>>, "OK">>, <<<<>>, "SEM_DATA">>}

\* C21: the expiry status is one of six values, decided by the days to
\* expiry alone: below 0 VENCIDO, 0..15 CRITICO, 16..30 ATENCAO, 31..60
\* ALERTA, above 60 OK, and SEM_DATA when there is no expiry date; the nine
\* listed inputs get the listed statuses
C21_ExpiryStatusThresholds ==
    HasReturned("categorize_status") =>
        /\ etl.out = IF etl.frame = <<>> THEN "SEM_DATA" ELSE StatusOfDays(etl.frame[1])
        /\ \A p \in ListedStatuses : etl.frame = p[1] => etl.out = p[2]

\* a boundary of every threshold has been classified
C21_Witness ==
    /\ HasReturned("categorize_status")
    /\ etl.frame \in {<<15>>, <<16>>, <<30>>, <<31>>, <<60>>, <<61>>}
    /\ etl.out \in {"CRITICO", "ATENCAO", "ALERTA", "OK"}

\* the calls that load a dimension, and the calls that load a fact
DimensionLoads == {"load_dim_tempo", "load_empresas", "load_funcionarios"}

FactLoads == {"load_absenteismo"}

\* the positions of etl.out at which x was cleared or called
PositionsOf(x) == {i \in DOMAIN etl.out : etl.out[i] = x}

\* C22: in a full reload a table is cleared before every table it
\* references, and in the reload that follows no fact load starts before
\* the time, company and employee dimensions have been loaded and
\* committed
C22_ClearFactsFirstLoadDimensionsFirst ==
    etl.kind = "main" =>
        /\ \A i, j \in DOMAIN etl.out :
              (/\ etl.out[i] \in Range(tables_order)
               /\ etl.out[j] \in References(etl.out[i])) => i < j
        /\ \A j \in DOMAIN etl.out :
              etl.out[j] \in FactLoads =>
                  \A d \in DimensionLoads : \E i \in PositionsOf(d) : i < j

\* the script has cleared the eleven tables of a store that held facts,
\* then loaded and committed the time and the company dimension
C22_Witness ==
    /\ etl.kind = "main" /\ etl.stage = "done"
    /\ etl.out = tables_order \o <<"load_dim_tempo", "load_empresas">>
    /\ last.op = "load_empresas" /\ last.result = "ok"
    /\ dim_tempo # <<>> /\ dim_empresa # <<>>
    /\ dim_funcionario = <<>> /\ fato_absenteismo = <<>> /\ fato_convocacao = <<>>

\* the five tables of the model
Stored == <<dim_tempo, dim_empresa, dim_funcionario, fato_absenteismo, fato_convocacao>>

\* C23: when a loader call fails, only its own unit is rolled back: every
\* row that an earlier unit committed is still in its table, unchanged, and
\* no row of the failed unit is in any table
C23_EarlierUnitsSurviveFailure ==
    [][(last'.result = "raised" /\ clock' = clock + 1)
        => \A t \in DOMAIN Stored :
              /\ Len(Stored'[t]) = Len(Stored[t])
              /\ \A i \in DOMAIN Stored[t] : Stored'[t][i] = Stored[t][i]]_vars

\* load_dim_tempo failed on a date already stored, after a time unit and a
\* company unit had committed
C23_Witness ==
    /\ last.op = "load_dim_tempo"
    /\ last.result = "raised"
    /\ dim_tempo # <<>>
    /\ dim_empresa # <<>>

\* C24: when AbsenteismoETL.process_raw_data returns, every input row is
\* among the returned rows or has an entry with its index in the error list
C24_NoAbsenceRowDroppedSilently ==
    (etl.stage = "done" /\ etl.kind = "absenteismo" /\ etl.out.result = "ok")
    => \A k \in DOMAIN etl.frame :
          \/ \E d \in Rows(etl.out.data) : d.idx = k - 1
          \/ \E e \in Rows(etl.out.errors) : e.row = k - 1

\* C25: when FuncionarioETL.process_raw_data returns, every row whose raw
\* CPF is a non-empty string that is not a valid CPF, a string without any
\* digit included, has a 'CPF invalido' entry in the error list
C25_PresentInvalidCpfReported ==
    (etl.stage = "done" /\ etl.kind = "funcionarios" /\ etl.out.result = "ok")
    => \A k \in DOMAIN etl.frame :
          (Truthy(etl.frame[k].CPF) /\ ~validate_cpf(etl.frame[k].CPF))
          => \E e \in Rows(etl.out.errors) : e.row = k - 1 /\ e.error = "CPF invalido"

\* C26: DataLoader._parse_date returns the same date as
\* DataTransformer.parse_date on every string that the transformer parses
C26_LoaderParsesWhatTransformerParses ==
    HasReturned("_parse_date") =>
        (etl.out.transformer # None => etl.out.loader = etl.out.transformer)

\* C27: get_funcionarios_convocacao_pendente called with a company code
\* returns the summons rows of that company that have the redo flag set or
\* no result date, and no other row
C27_PendingSummonsOfTheCompanyOnly ==
    [][(/\ etl'.stage = "done"
        /\ etl'.kind = "get_funcionarios_convocacao_pendente"
        /\ etl'.frame \notin {None, <<0>>}
        /\ clock' = clock)
        => etl'.out.data
             = SelectRows(fato_convocacao,
                          LAMBDA fc : /\ fc.codigo_empresa = etl'.frame
                                      /\ (fc.refazer \/ fc.data_resultado = None))]_vars

\* C28 as stated: each flag is true exactly when the status has its name,
\* and the three are false without an expiry date
C28_FlagsAgreeWithStatus ==
    HasReturned("_calculate_vencimento_metrics") =>
        /\ etl.out.vencido <=> etl.out.status_vencimento = "VENCIDO"
        /\ etl.out.critico <=> etl.out.status_vencimento = "CRITICO"
        /\ etl.out.alerta <=> etl.out.status_vencimento = "ALERTA"
        /\ etl.frame.dataVencimento = None
           => ~etl.out.vencido /\ ~etl.out.critico /\ ~etl.out.alerta

\* C28: vencido is true exactly when the status is VENCIDO, alerta exactly
\* when it is ALERTA, and critico exactly when the expiry is 0 to 30 days
\* away, that is when the status is CRITICO or ATENCAO; the three are false
\* without an expiry date
C28_FlagsFollowThirtyDayWindow ==
    HasReturned("_calculate_vencimento_metrics") =>
        /\ etl.out.vencido <=> etl.out.status_vencimento = "VENCIDO"
        /\ etl.out.critico <=> etl.out.status_vencimento \in {"CRITICO", "ATENCAO"}
        /\ etl.out.critico
           <=> /\ etl.frame.dataVencimento # None
               /\ Ordinal(etl.frame.dataVencimento) - Ordinal(etl.today) \in 0..30
        /\ etl.out.alerta <=> etl.out.status_vencimento = "ALERTA"
        /\ etl.frame.dataVencimento = None
           => /\ ~etl.out.vencido /\ ~etl.out.critico /\ ~etl.out.alerta
              /\ etl.out.status_vencimento = "SEM_DATA"

\* a document expiring in 16 to 30 days: flagged critico, status ATENCAO
C28_Witness ==
    /\ HasReturned("_calculate_vencimento_metrics")
    /\ etl.out.critico
    /\ etl.out.dias_para_vencimento \in {<<16>>, <<30>>}
    /\ etl.out.status_vencimento = "ATENCAO"

\* the age band whose label reads as containing the age a
BandOfAge(a) ==
    IF a < 25 THEN "<25"
    ELSE IF a <= 34 THEN "25-34"
    ELSE IF a <= 44 THEN "35-44"
    ELSE IF a <= 54 THEN "45-54"
    ELSE IF a <= 64 THEN "55-64"
    ELSE "65+"

\* C29: an employee of age a >= 0 gets the age band whose label contains a:
\* '<25' for 0..24, '25-34' for 25..34, '35-44' for 35..44, '45-54' for
\* 45..54, '55-64' for 55..64 and '65+' from 65 on
C29_AgeBandContainsAge ==
    (HasReturned("faixa_etaria") /\ etl.frame # <<>> /\ etl.frame[1] >= 0)
    => etl.out = <<BandOfAge(etl.frame[1])>>

\* the load has left its loop, by the exit or by an exception
LoopEnded == etl.stage \in {"done", "raised"}

\* current_date moves forward whenever it changes
LoopDateIncreases ==
    [][etl'.frame.current # etl.frame.current
        => DateLT(etl.frame.current, etl'.frame.current)]_vars

\* no record is built when start_date is after end_date
LoopSkipsEmptyRange ==
    [](DateLT(etl.frame.end, etl.frame.start) => etl.out = <<>>)

\* C30 as stated: for every pair of dates the loop ends with current_date
\* past end_date, current_date having strictly increased on every iteration,
\* and it builds no record when start_date is after end_date
C30_LoopRunsPastEndDate ==
    /\ LoopDateIncreases
    /\ LoopSkipsEmptyRange
    /\ <>(etl.stage = "done" /\ DateLT(etl.frame.end, etl.frame.current))

\* C30: the loop ends for every pair of dates; current_date strictly
\* increases on every iteration, across month ends and the year end; the loop
\* exits with current_date past end_date unless end_date is on or after
\* 28 December of MAXYEAR, where the increment raises ValueError instead;
\* and it builds no record when start_date is after end_date
C30_LoopTerminates ==
    /\ LoopDateIncreases
    /\ LoopSkipsEmptyRange
    /\ <>LoopEnded
    /\ [](etl.stage = "done" => DateLT(etl.frame.end, etl.frame.current))
    /\ [](etl.stage = "raised"
           => /\ DateLE(<<MAXYEAR, 12, 28>>, etl.frame.end)
              /\ DateLE(etl.frame.start, etl.frame.end))
    /\ []((~DateLE(<<MAXYEAR, 12, 28>>, etl.frame.end)) => <>(etl.stage = "done"))

\* a range from December into January has been enumerated and left
C30_Witness ==
    /\ etl.kind = "load_dim_tempo"
    /\ etl.stage = "done"
    /\ etl.frame.start = <<2023, 12, 27>>
    /\ etl.frame.end = <<2024, 1, 2>>
    /\ etl.frame.current = <<2024, 1, 3>>
    /\ Len(etl.out) >= 3

====
